---- MODULE Spec2Model ----
(***************************************************************************)
(* Bouncy Ball: the game session (GamePage + GameCanvas) and the physics   *)
(* it drives.                                                              *)
(*                                                                         *)
(* Units.  The source computes in floating point.  Here every length and   *)
(* velocity is an integer number of TENTHS of a pixel (per tick), so       *)
(* gravity 0.3 is 3, restitution 0.75 is *3/4 and launch power 0.12 is     *)
(* *12/100; a quotient is truncated toward zero and a square root is the   *)
(* integer square root.  Time is in milliseconds.                          *)
(*                                                                         *)
(* Scheduling.  The page runs on one thread.  A handler (a frame callback, *)
(* a mouse listener, a click handler) runs to completion, so each is one   *)
(* action.  State updates requested by a frame callback (setPhase,         *)
(* setBounces, ...) are queued by React and reach the page in a later task *)
(* (action Commit); an input event may be handled before that task.  State *)
(* updates requested inside an input event are rendered, with their        *)
(* effects, before the event returns, after the updates already queued.    *)
(*                                                                         *)
(* Time.  performance.now() is read only as a difference from the launch   *)
(* (startTimeRef) or from the previous frame (lastTime), and both are set  *)
(* at the launch; the clock is therefore counted from the last launch.     *)
(*                                                                         *)
(* Rounding.  Every floating-point operation of the source rounds its      *)
(* result to the nearest double; here it rounds to a tenth of a pixel.     *)
(* What depends on rounding (a ball pushed out to exactly the contact      *)
(* distance) is rounded in both, not by the same amounts.                  *)
(*                                                                         *)
(* Storage.  localStorage is available: setItem and getItem do not throw   *)
(* and the item is changed by this page only.  JSON text is modelled as    *)
(* the sequence of the tokens that JSON.stringify writes.                  *)
(*                                                                         *)
(* Specifications.  Spec is the session of one game page.  FlightSpec is   *)
(* one flight with the steps and the time of its frames recorded (played). *)
(* StoreSpec is the navigation between level select and the game pages and *)
(* the persistence of wins, a flight reduced to its outcome.  ScoreSpec,   *)
(* SaveSpec and ResolveSpec apply calculateScore, saveGameData and         *)
(* loadGameData, and the collision resolvers to inputs drawn from sets;    *)
(* StepSpec and PredictSpec do so for stepPhysics and simulateTrajectory.  *)
(* PreviewSpec is the aiming phase with the trajectory preview that every  *)
(* frame draws.  LoopSpec is a flight with Pause and with the page left:   *)
(* it follows the frame callbacks that are scheduled with the browser.     *)
(* ProgressSpec applies loadGameData and updateLevelProgress to stored     *)
(* items that are missing, damaged or short.  NextLevelSpec is a flight of *)
(* level 1 and the Next Level button of its win overlay.  PauseSpec is     *)
(* FlightSpec with Pause and Resume.  AimSpec is a drag with the preview   *)
(* that each frame draws, the release at the point last previewed, and the *)
(* flight.  TerminationSpec is a flight whose frame callbacks keep         *)
(* arriving, under weak fairness of the frame callback and of the render:  *)
(* past MaxClock the time readings stay where they are and only the frame  *)
(* intervals are drawn.                                                    *)
(***************************************************************************)
EXTENDS Integers, Sequences, FiniteSets, TLC

\* ------------------------------------------------------------ bounds
MaxClock == 256
MaxRestarts == 1

\* ------------------------------------------------------------ constants
CANVAS_WIDTH == 8000
CANVAS_HEIGHT == 5600
BALL_RADIUS == 140
GRAVITY == 3
MAX_DRAG_DIST == 1500
STAR_RADIUS == 160
MinDrag == 50
MaxStepsPerFrame == 3

Null == <<>>

Abs(v) == IF v >= 0 THEN v ELSE -v
Min(a, b) == IF a <= b THEN a ELSE b
Max(a, b) == IF a >= b THEN a ELSE b

\* a / b of two numbers, b > 0, truncated toward zero
TDiv(a, b) == IF a >= 0 THEN a \div b ELSE -((-a) \div b)

RECURSIVE SqrtSearch(_, _, _)
SqrtSearch(n, lo, hi) ==
    IF lo >= hi THEN lo
    ELSE LET mid == (lo + hi + 1) \div 2
         IN IF mid * mid <= n THEN SqrtSearch(n, mid, hi)
            ELSE SqrtSearch(n, lo, mid - 1)

\* Math.sqrt, rounded down
Sqrt(n) == SqrtSearch(n, 0, 46340)

\* a restitution above 1
Restitution_Gain(v) == TDiv(v * 5, 4)

\* v * RESTITUTION
Restitution(v) == TDiv(v * 3, 4)

\* ------------------------------------------------------------ levels
Level1 ==
    [id |-> 1,
     ballStart |-> <<1000, 3000>>,
     obstacles |-> <<>>,
     stars |-> << <<2000, 2550>>, <<2600, 2350>>, <<3100, 2550>> >>,
     goal |-> [x |-> 3400, y |-> 2300, width |-> 1400, height |-> 1300],
     maxBounces |-> 20]

\* A level configuration of the LevelConfig type with maxBounces 0, a circle and
\* a rectangle against the left wall and the goal in the left wall's upper part:
\* the bounce-limit cases arise within a few ticks of the launch.
Level2 ==
    [id |-> 2,
     ballStart |-> <<1000, 4300>>,
     obstacles |-> << [type |-> "rect", x |-> 3700, y |-> 1500, width |-> 200, height |-> 3200] >>,
     stars |-> << <<2200, 3600>>, <<5300, 2000>>, <<6700, 3800>> >>,
     goal |-> [x |-> 6200, y |-> 1500, width |-> 1000, height |-> 1000],
     maxBounces |-> 15]

ProbeLevel ==
    [id |-> 2,
     ballStart |-> <<800, 4800>>,
     obstacles |-> << [type |-> "rect", x |-> 0, y |-> 4990, width |-> 300, height |-> 110],
                      [type |-> "circle", x |-> 0, y |-> 5050, radius |-> 120] >>,
     stars |-> << <<500, 4400>>, <<140, 3600>>, <<5000, 3000>> >>,
     goal |-> [x |-> 0, y |-> 3000, width |-> 400, height |-> 800],
     maxBounces |-> 0]

Levels == {Level1, ProbeLevel}

\* ------------------------------------------------------------ physics
Ball(x, y, vx, vy) == [x |-> x, y |-> y, vx |-> vx, vy |-> vy]

\* (v - 2 * dot * n) * RESTITUTION with n = d / dist and dot = (v . d) / dist
Reflect(v, d, dotd, distSq) == Restitution(v - TDiv(2 * dotd * d, distSq))

resolveRectCollision(ball, rect) ==
    LET closestX == Max(rect.x, Min(ball.x, rect.x + rect.width))
        closestY == Max(rect.y, Min(ball.y, rect.y + rect.height))
        dx == ball.x - closestX
        dy == ball.y - closestY
        distSq == dx * dx + dy * dy
    IN IF distSq < BALL_RADIUS * BALL_RADIUS /\ distSq > 0
       THEN LET dist == Sqrt(distSq)
                penetration == BALL_RADIUS - dist
                dotd == ball.vx * dx + ball.vy * dy
            IN [ball |-> Ball(ball.x + TDiv(dx * penetration, dist),
                              ball.y + TDiv(dy * penetration, dist),
                              Reflect(ball.vx, dx, dotd, distSq),
                              Reflect(ball.vy, dy, dotd, distSq)),
                bounced |-> TRUE]
       ELSE [ball |-> ball, bounced |-> FALSE]

\* a resolver that takes a ball at the circle's centre for a contact and moves it up
resolveCircleObstacleCollision_AtCentre(ball, circle) ==
    LET dx == ball.x - circle.x
        dy == ball.y - circle.y
        distSq == dx * dx + dy * dy
        dist == Sqrt(distSq)
        minDist == BALL_RADIUS + circle.radius
    IN IF dist = 0
       THEN [ball |-> Ball(ball.x, ball.y - minDist, ball.vx, Restitution(-ball.vy)),
             bounced |-> TRUE]
       ELSE IF dist < minDist
       THEN LET penetration == minDist - dist
                dotd == ball.vx * dx + ball.vy * dy
            IN [ball |-> Ball(ball.x + TDiv(dx * penetration, dist),
                              ball.y + TDiv(dy * penetration, dist),
                              Reflect(ball.vx, dx, dotd, distSq),
                              Reflect(ball.vy, dy, dotd, distSq)),
                bounced |-> TRUE]
       ELSE [ball |-> ball, bounced |-> FALSE]

resolveCircleObstacleCollision(ball, circle) ==
    LET dx == ball.x - circle.x
        dy == ball.y - circle.y
        distSq == dx * dx + dy * dy
        dist == Sqrt(distSq)
        minDist == BALL_RADIUS + circle.radius
    IN IF dist < minDist /\ dist > 0
       THEN LET penetration == minDist - dist
                dotd == ball.vx * dx + ball.vy * dy
            IN [ball |-> Ball(ball.x + TDiv(dx * penetration, dist),
                              ball.y + TDiv(dy * penetration, dist),
                              Reflect(ball.vx, dx, dotd, distSq),
                              Reflect(ball.vy, dy, dotd, distSq)),
                bounced |-> TRUE]
       ELSE [ball |-> ball, bounced |-> FALSE]

resolveObstacle(ball, obs) ==
    IF obs.type = "rect" THEN resolveRectCollision(ball, obs)
    ELSE resolveCircleObstacleCollision(ball, obs)

\* an obstacle loop that takes the obstacles from the last to the first
RECURSIVE resolveObstacles_Reversed(_, _, _, _)
resolveObstacles_Reversed(current, obstacleBounced, obstacles, i) ==
    IF i > Len(obstacles) THEN [ball |-> current, bounced |-> obstacleBounced]
    ELSE LET result == resolveObstacle(current, obstacles[Len(obstacles) + 1 - i])
         IN IF result.bounced
            THEN resolveObstacles_Reversed(result.ball, TRUE, obstacles, i + 1)
            ELSE resolveObstacles_Reversed(current, obstacleBounced, obstacles, i + 1)

\* the obstacle loop of stepPhysics from obstacle i on
RECURSIVE resolveObstacles(_, _, _, _)
resolveObstacles(current, obstacleBounced, obstacles, i) ==
    IF i > Len(obstacles) THEN [ball |-> current, bounced |-> obstacleBounced]
    ELSE LET result == resolveObstacle(current, obstacles[i])
         IN IF result.bounced
            THEN resolveObstacles(result.ball, TRUE, obstacles, i + 1)
            ELSE resolveObstacles(current, obstacleBounced, obstacles, i + 1)

\* a result that is out of bounds from the bottom edge on
StepResult_Inclusive(obs, wallBounced) ==
    [ball |-> obs.ball,
     wallBounced |-> wallBounced,
     obstacleBounced |-> obs.bounced,
     outOfBounds |-> obs.ball.y - BALL_RADIUS >= CANVAS_HEIGHT]

\* stepPhysics' result, given the ball after the obstacle loop
StepResult(obs, wallBounced) ==
    [ball |-> obs.ball,
     wallBounced |-> wallBounced,
     obstacleBounced |-> obs.bounced,
     outOfBounds |-> obs.ball.y - BALL_RADIUS > CANVAS_HEIGHT]

stepPhysics(ball, obstacles) ==
    LET vy0 == ball.vy + GRAVITY
        x0 == ball.x + ball.vx
        y0 == ball.y + vy0
        left == x0 - BALL_RADIUS < 0
        x1 == IF left THEN BALL_RADIUS ELSE x0
        vx1 == IF left THEN Restitution(Abs(ball.vx)) ELSE ball.vx
        right == x1 + BALL_RADIUS > CANVAS_WIDTH
        x2 == IF right THEN CANVAS_WIDTH - BALL_RADIUS ELSE x1
        vx2 == IF right THEN -Restitution(Abs(vx1)) ELSE vx1
        top == y0 - BALL_RADIUS < 0
        y1 == IF top THEN BALL_RADIUS ELSE y0
        vy1 == IF top THEN Restitution(Abs(vy0)) ELSE vy0
    IN StepResult(resolveObstacles(Ball(x2, y1, vx2, vy1), FALSE, obstacles, 1),
                  left \/ right \/ top)

\* a pickup from twice the distance
checkStarCollection_Wide(ball, starX, starY) ==
    LET dx == ball.x - starX
        dy == ball.y - starY
    IN Sqrt(dx * dx + dy * dy) < 2 * (BALL_RADIUS + STAR_RADIUS)

checkStarCollection(ball, starX, starY) ==
    LET dx == ball.x - starX
        dy == ball.y - starY
    IN Sqrt(dx * dx + dy * dy) < BALL_RADIUS + STAR_RADIUS

\* a goal entered by a bounding box that only touches it
checkGoalEntry_Touching(ball, goal) ==
    /\ ball.x + BALL_RADIUS >= goal.x
    /\ ball.x - BALL_RADIUS <= goal.x + goal.width
    /\ ball.y + BALL_RADIUS >= goal.y
    /\ ball.y - BALL_RADIUS <= goal.y + goal.height

checkGoalEntry(ball, goal) ==
    /\ ball.x + BALL_RADIUS > goal.x
    /\ ball.x - BALL_RADIUS < goal.x + goal.width
    /\ ball.y + BALL_RADIUS > goal.y
    /\ ball.y - BALL_RADIUS < goal.y + goal.height

\* ------------------------------------------------------------ score
NullScore == [isNull |-> TRUE, starsBonus |-> 0, bounceEfficiency |-> 0, timeBonus |-> 0, total |-> 0]

\* a score whose time bonus is not held at 0 after a minute
calculateScore_Unbounded(starsCollected_, bounces_, timeMs, maxBounces) ==
    [isNull |-> FALSE, starsBonus |-> starsCollected_ * 500,
     bounceEfficiency |-> Max(0, (maxBounces - bounces_) * 100),
     timeBonus |-> (60000 - timeMs) \div 100,
     total |-> starsCollected_ * 500 + Max(0, (maxBounces - bounces_) * 100)
               + (60000 - timeMs) \div 100]

\* timeMs is the elapsed time in milliseconds (timeSeconds * 1000)
calculateScore(starsCollected_, bounces_, timeMs, maxBounces) ==
    LET starsBonus == starsCollected_ * 500
        bounceEfficiency == Max(0, (maxBounces - bounces_) * 100)
        timeBonus == Max(0, (60000 - timeMs) \div 100)
    IN [isNull |-> FALSE, starsBonus |-> starsBonus, bounceEfficiency |-> bounceEfficiency,
        timeBonus |-> timeBonus, total |-> starsBonus + bounceEfficiency + timeBonus]

\* ------------------------------------------------------------ storage
\* LEVELS.length
NumLevels == 5

\* A value that may be null is Null or <<v>>.
Some(v) == <<v>>

LevelProgress(levelId, bestScore, bestStars, completed) ==
    [levelId |-> levelId, bestScore |-> bestScore, bestStars |-> bestStars, completed |-> completed]

getDefaultGameData ==
    [currentUnlockedLevel |-> 1,
     levels |-> [i \in 1..NumLevels |-> LevelProgress(i, Null, Null, FALSE)]]

\* JSON text is a sequence of tokens: the currentUnlockedLevel, then the four
\* fields of every entry of levels.  localStorage holds such a text, or Null
\* when the item is absent.
JsonNumber(n) == [t |-> "number", v |-> n]
JsonNull == [t |-> "null", v |-> 0]
JsonBoolean(b) == [t |-> IF b THEN "true" ELSE "false", v |-> 0]
\* a nullable number written as null when it is 0
JsonNullable_Falsy(x) == IF x = Null \/ x[1] = 0 THEN JsonNull ELSE JsonNumber(x[1])
JsonNullable(x) == IF x = Null THEN JsonNull ELSE JsonNumber(x[1])

\* a stored item that is not JSON
NotJson == <<[t |-> "{", v |-> 0]>>

StringifyProgress(p) ==
    <<JsonNumber(p.levelId), JsonNullable(p.bestScore), JsonNullable(p.bestStars),
      JsonBoolean(p.completed)>>

RECURSIVE StringifyLevels(_, _)
StringifyLevels(levels, i) ==
    IF i > Len(levels) THEN <<>>
    ELSE StringifyProgress(levels[i]) \o StringifyLevels(levels, i + 1)

JsonStringify(data) ==
    <<JsonNumber(data.currentUnlockedLevel)>> \o StringifyLevels(data.levels, 1)

\* JSON.parse does not throw
IsJson(text) ==
    /\ Len(text) >= 1
    /\ (Len(text) - 1) % 4 = 0
    /\ \A i \in 1..Len(text) : text[i].t \in {"number", "null", "true", "false"}

ParseNullable(token) == IF token.t = "null" THEN Null ELSE Some(token.v)

\* the entry whose first token is text[at]
ParseProgress(text, at) ==
    LevelProgress(text[at].v, ParseNullable(text[at + 1]), ParseNullable(text[at + 2]),
                  text[at + 3].t = "true")

JsonParse(text) ==
    [currentUnlockedLevel |-> text[1].v,
     levels |-> [i \in 1..((Len(text) - 1) \div 4) |-> ParseProgress(text, 4 * i - 2)]]

\* a load that returns whatever was parsed
LoadedData_Any(data) == data

\* loadGameData, given the parsed item; an item without a levels list parses to
\* no entries, as one with an empty list does
LoadedData(data) == IF Len(data.levels) < NumLevels THEN getDefaultGameData ELSE data

\* loadGameData, given the item of localStorage
loadGameData(raw) ==
    IF raw = Null THEN getDefaultGameData
    ELSE IF ~IsJson(raw) THEN getDefaultGameData
    ELSE LoadedData(JsonParse(raw))

\* the item of localStorage after saveGameData(data)
saveGameData(data) == JsonStringify(data)

\* levels.findIndex((l) => l.levelId === levelId), or 0 for -1
FindIndex(levels, levelId) ==
    IF \E i \in 1..Len(levels) : levels[i].levelId = levelId
    THEN CHOOSE i \in 1..Len(levels) :
             /\ levels[i].levelId = levelId
             /\ \A j \in 1..(i - 1) : levels[j].levelId # levelId
    ELSE 0

\* the last value, whatever was stored
BestOf_Latest(existing, v) == Some(v)

\* existing === null ? v : Math.max(existing, v)
BestOf(existing, v) == IF existing = Null THEN Some(v) ELSE Some(Max(existing[1], v))

\* unlocking the level after levelId, whatever levelId is
Unlocked_Next(currentUnlockedLevel, levelId) == Max(currentUnlockedLevel, levelId + 1)

\* the unlocked level after a win of levelId
Unlocked(currentUnlockedLevel, levelId) ==
    IF levelId < NumLevels THEN Max(currentUnlockedLevel, levelId + 1) ELSE currentUnlockedLevel

\* an update that keeps the stars of the run with the best score
UpdatedData_Paired(data, levelIndex, levelId, score, starsCollected_) ==
    [currentUnlockedLevel |-> Unlocked(data.currentUnlockedLevel, levelId),
     levels |-> [data.levels EXCEPT ![levelIndex] =
                    IF @.bestScore = Null \/ score > @.bestScore[1]
                    THEN LevelProgress(@.levelId, Some(score), Some(starsCollected_), TRUE)
                    ELSE LevelProgress(@.levelId, @.bestScore, @.bestStars, TRUE)]]

\* the data updateLevelProgress saves, given the data it loaded and the index it found
UpdatedData(data, levelIndex, levelId, score, starsCollected_) ==
    [currentUnlockedLevel |-> Unlocked(data.currentUnlockedLevel, levelId),
     levels |-> [data.levels EXCEPT ![levelIndex] =
                    LevelProgress(@.levelId, BestOf(@.bestScore, score),
                                  BestOf(@.bestStars, starsCollected_), TRUE)]]

\* updateLevelProgress, given the data it loaded: the item of localStorage after it
UpdateLoaded(raw, data, levelId, score, starsCollected_) ==
    IF FindIndex(data.levels, levelId) = 0 THEN raw
    ELSE saveGameData(UpdatedData(data, FindIndex(data.levels, levelId), levelId, score,
                                  starsCollected_))

\* what updateLevelProgress returns, given the data it loaded
UpdateReturned(data, levelId, score, starsCollected_) ==
    IF FindIndex(data.levels, levelId) = 0 THEN data
    ELSE UpdatedData(data, FindIndex(data.levels, levelId), levelId, score, starsCollected_)

\* the item of localStorage after updateLevelProgress(levelId, score, starsCollected)
updateLevelProgress(raw, levelId, score, starsCollected_) ==
    UpdateLoaded(raw, loadGameData(raw), levelId, score, starsCollected_)

\* ------------------------------------------------------------ inputs
\* mouse positions, as offsets from the ball's start
PressOffsets == { <<0, 0>>, <<500, 0>> }
MoveOffsets == { <<670, -420>>, <<0, 1500>> }
ReleaseOffsets ==
    { <<670, -420>>, <<0, 1500>>, <<0, 3000>>, <<0, 30>>, <<0, 0>>, <<30, 40>>,
      <<-1000, 0>>, <<-900, 1200>>, <<-900, -1200>>, <<-1800, -2400>>, <<1500, 0>> }
\* milliseconds between two frame callbacks, by the phase the loop sees: less
\* than half a step, one step, and more than the three steps a frame may take
FrameDts(p) == IF p = "playing" THEN {8, 16, 64} ELSE {64}

VARIABLES
    level,              \* GamePage: the level of the session
    phase,              \* GamePage state, as last rendered
    starsCollected,
    bounces,
    elapsedTime,
    finalScore,
    finalStars,
    gameKey,
    starsCollectedRef,  \* GamePage refs
    bouncesRef,
    ballRef,            \* GameCanvas refs
    dragStartRef,
    dragCurrentRef,
    startTimeRef,
    elapsedRef,
    phaseRef,
    winFiredRef,
    loseFiredRef,
    lastTime,           \* the game loop effect's lastTime
    rafScheduled,       \* the frame callback that rafRef.current names is scheduled
    staleFrames,        \* the scheduled frame callbacks of the loop that rafRef.current
                        \* no longer names, and cancelAnimationFrame cannot reach
    pending,            \* state updates requested and not yet rendered
    clock,              \* performance.now()
    winCalls,           \* calls of onWin since the last reset
    loseCalls,          \* calls of onLose since the last reset
    restartedFrom,      \* the phase in which Restart was last clicked
    page,               \* the route: 0 is level select, n is the game page of level n
    requested,          \* the level id of the last click on a level card, opened game
                        \* address or Next Level; 0 before any
    gameData,           \* LevelSelectPage state: the data loaded at its mount, or Null
    localStorage,       \* the stored item (JSON text), or Null
    progressCalls,      \* the arguments of the calls of updateLevelProgress in this session
    preview,            \* PreviewSpec, PredictSpec: the last call of the trajectory
                        \* predictor, its argument ball and the points returned; Null
                        \* before any
    played,             \* FlightSpec: since the launch, the steps run, the time of the Playing
                        \* frames, and whether a frame was over the cap
    ticks               \* the physics steps of the last frame callback that ran any

refVars == <<starsCollectedRef, bouncesRef, ballRef, dragStartRef, dragCurrentRef, startTimeRef,
             elapsedRef, phaseRef, winFiredRef, loseFiredRef, lastTime, rafScheduled,
             staleFrames, winCalls, loseCalls>>
uiVars == <<phase, starsCollected, bounces, elapsedTime, finalScore, finalStars, gameKey>>
storeVars == <<page, requested, gameData, localStorage, progressCalls>>
vars == <<level, uiVars, refVars, pending, clock, ticks, restartedFrom, played, preview,
          storeVars>>

\* nothing played yet
NotPlayed == [steps |-> 0, time |-> 0, capped |-> FALSE]

\* ------------------------------------------------------------ React state
\* one requested state update: which setter, and its argument
Upd(k, n, s, sc) == [k |-> k, n |-> n, s |-> s, sc |-> sc]
setPhase(p) == Upd("phase", 0, p, NullScore)
setBounces(n) == Upd("bounces", n, "", NullScore)
setElapsedTime(t) == Upd("elapsedTime", t, "", NullScore)
setStarCollected(i) == Upd("star", i, "", NullScore)
setStarsCollectedNone == Upd("starsNone", 0, "", NullScore)
setFinalScore(sc) == Upd("finalScore", 0, "", sc)
setFinalStars(n) == Upd("finalStars", n, "", NullScore)
setGameKeyNext == Upd("gameKey", 0, "", NullScore)

Ui == [phase |-> phase, starsCollected |-> starsCollected, bounces |-> bounces,
       elapsedTime |-> elapsedTime, finalScore |-> finalScore, finalStars |-> finalStars,
       gameKey |-> gameKey]

ApplyUpdate(ui, u) ==
    CASE u.k = "phase" -> [ui EXCEPT !.phase = u.s]
      [] u.k = "bounces" -> [ui EXCEPT !.bounces = u.n]
      [] u.k = "elapsedTime" -> [ui EXCEPT !.elapsedTime = u.n]
      [] u.k = "star" -> [ui EXCEPT !.starsCollected[u.n] = TRUE]
      [] u.k = "starsNone" -> [ui EXCEPT !.starsCollected = <<FALSE, FALSE, FALSE>>]
      [] u.k = "finalScore" -> [ui EXCEPT !.finalScore = u.sc]
      [] u.k = "finalStars" -> [ui EXCEPT !.finalStars = u.n]
      [] u.k = "gameKey" -> [ui EXCEPT !.gameKey = ui.gameKey + 1]

RECURSIVE ApplyUpdates(_, _)
ApplyUpdates(ui, q) ==
    IF q = <<>> THEN ui ELSE ApplyUpdates(ApplyUpdate(ui, Head(q)), Tail(q))

\* the refs and the loop's variables as one record
Refs ==
    [stars |-> starsCollectedRef, bounces |-> bouncesRef, ball |-> ballRef,
     dragStart |-> dragStartRef, dragCurrent |-> dragCurrentRef, startTime |-> startTimeRef,
     elapsed |-> elapsedRef, phase |-> phaseRef, winFired |-> winFiredRef,
     loseFired |-> loseFiredRef, lastTime |-> lastTime, raf |-> rafScheduled, stale |-> staleFrames,
     winCalls |-> winCalls, loseCalls |-> loseCalls]

AllFalse(stars) == [i \in 1..Len(stars) |-> FALSE]

\* GameCanvas "Sync phase ref" effect
SyncPhaseEffect(r, p) == [r EXCEPT !.phase = p]

\* a reset that leaves the lose latch and the last flight's ball alone
ResetEffect_KeepsFlight(r, lv) ==
    [r EXCEPT !.dragStart = Null,
              !.dragCurrent = Null,
              !.bounces = 0,
              !.elapsed = 0,
              !.startTime = 0,
              !.winFired = FALSE,
              !.stars = AllFalse(lv.stars),
              !.winCalls = 0,
              !.loseCalls = 0]

\* GameCanvas "Reset when gameKey changes" effect
ResetEffect(r, lv) ==
    [r EXCEPT !.ball = Ball(lv.ballStart[1], lv.ballStart[2], 0, 0),
              !.dragStart = Null,
              !.dragCurrent = Null,
              !.bounces = 0,
              !.elapsed = 0,
              !.startTime = 0,
              !.winFired = FALSE,
              !.loseFired = FALSE,
              !.stars = AllFalse(lv.stars),
              !.winCalls = 0,
              !.loseCalls = 0]

\* a cleanup whose cancel reaches no scheduled callback
cancelAnimationFrame_Stale(r) == r

\* cancelAnimationFrame(rafRef.current), the cleanup of the "Game loop" effect
cancelAnimationFrame(r) == [r EXCEPT !.raf = FALSE]

\* rafRef.current = requestAnimationFrame(loop): a callback that rafRef.current
\* named and that is still scheduled stays scheduled
requestAnimationFrame(r) ==
    [r EXCEPT !.raf = TRUE, !.stale = IF r.raf THEN r.stale + 1 ELSE r.stale]

\* GameCanvas "Game loop" effect run again: the cleanup of the run before, then
\* a new loop
LoopEffect(r, now) ==
    [requestAnimationFrame(cancelAnimationFrame(r)) EXCEPT !.lastTime = now]

\* the refs after the effects of a render that took the page from ui0 to ui1
RunEffects(r, ui0, ui1, lv, now) ==
    LET r1 == IF ui1.phase # ui0.phase THEN SyncPhaseEffect(r, ui1.phase) ELSE r
        r2 == IF ui1.gameKey # ui0.gameKey THEN ResetEffect(r1, lv) ELSE r1
    IN IF ui1.phase # ui0.phase THEN LoopEffect(r2, now) ELSE r2

\* the page after that render; the reset effect calls onBounceUpdate(0), onTimeUpdate(0)
RenderedUi(ui0, ui1) ==
    IF ui1.gameKey # ui0.gameKey THEN [ui1 EXCEPT !.bounces = 0, !.elapsedTime = 0] ELSE ui1

\* the page ui2 and the refs r1 a render leaves
Rendered(ui2, r1) ==
    /\ phase' = ui2.phase
    /\ starsCollected' = ui2.starsCollected
    /\ bounces' = ui2.bounces
    /\ elapsedTime' = ui2.elapsedTime
    /\ finalScore' = ui2.finalScore
    /\ finalStars' = ui2.finalStars
    /\ gameKey' = ui2.gameKey
    /\ starsCollectedRef' = r1.stars
    /\ bouncesRef' = r1.bounces
    /\ ballRef' = r1.ball
    /\ dragStartRef' = r1.dragStart
    /\ dragCurrentRef' = r1.dragCurrent
    /\ startTimeRef' = r1.startTime
    /\ elapsedRef' = r1.elapsed
    /\ phaseRef' = r1.phase
    /\ winFiredRef' = r1.winFired
    /\ loseFiredRef' = r1.loseFired
    /\ lastTime' = r1.lastTime
    /\ rafScheduled' = r1.raf
    /\ staleFrames' = r1.stale
    /\ winCalls' = r1.winCalls
    /\ loseCalls' = r1.loseCalls
    /\ pending' = <<>>

\* a render that takes the page to ui1, with its effects
RenderTo(ui1, r, now) == Rendered(RenderedUi(Ui, ui1), RunEffects(r, Ui, ui1, level, now))

\* React renders the queued updates q, in order, and runs the effects
Render(q, r, now) == RenderTo(ApplyUpdates(Ui, q), r, now)

\* ------------------------------------------------------------ game loop
\* Math.round(dt / 16.67)
StepCount(dt) == (200 * dt + 1667) \div 3334

\* the star loop of one physics step, from star i on: the flags, and the
\* onStarCollect calls appended to the queue q
RECURSIVE collectStars(_, _, _, _, _)
collectStars(ball, stars, flags, q, i) ==
    IF i > Len(stars) THEN [flags |-> flags, queue |-> q]
    ELSE IF ~flags[i] /\ checkStarCollection(ball, stars[i][1], stars[i][2])
         THEN collectStars(ball, stars, [flags EXCEPT ![i] = TRUE],
                           Append(q, setStarCollected(i)), i + 1)
         ELSE collectStars(ball, stars, flags, q, i + 1)

CountTrue(flags) == Cardinality({i \in DOMAIN flags : flags[i]})

\* the loop's win check: the win latch is unset and the ball entered the goal
WinCheck(winFired, ball, goal) == ~winFired /\ checkGoalEntry(ball, goal)

\* the loop's first lose check
OutOfBoundsCheck(loseFired, outOfBounds) == ~loseFired /\ outOfBounds

\* the loop's second lose check
MaxBouncesCheck(loseFired, bounceCount, maxBounces) == ~loseFired /\ bounceCount > maxBounces

\* a counter that counts the wall and the obstacles of one step separately
CountBounce_PerContact(bounceCount, result) ==
    bounceCount + (IF result.wallBounced THEN 1 ELSE 0)
                + (IF result.obstacleBounced THEN 1 ELSE 0)

\* the bounce counter after a physics step
CountBounce(bounceCount, result) ==
    IF result.wallBounced \/ result.obstacleBounced THEN bounceCount + 1 ELSE bounceCount

\* a handleWin that hands over the stars bonus, not the total
handleWinCall_Bonus(id, score, stars) == <<id, score.starsBonus, stars>>

\* handleWin's call updateLevelProgress(id, score.total, stars)
handleWinCall(id, score, stars) == <<id, score.total, stars>>

\* The termination checks of one pass of the loop body, after the physics step
\* (result), the bounce count (bounceCount) and the star loop (col).  s holds the
\* refs the loop writes, the queue of requested state updates, the record of the
\* frame's steps and the terminal transition fired so far.
CheckStep(s, lv, result, bounceCount, col) ==
    LET ball == result.ball
        starsCount == CountTrue(col.flags)
        score == calculateScore(starsCount, bounceCount, s.elapsed, lv.maxBounces)
        fired == IF WinCheck(s.winFired, ball, lv.goal) THEN "won"
                 ELSE IF OutOfBoundsCheck(s.loseFired, result.outOfBounds) THEN "lostOutOfBounds"
                 ELSE IF MaxBouncesCheck(s.loseFired, bounceCount, lv.maxBounces) THEN "lostMaxBounces"
                 ELSE "none"
        tick == [wallBounced |-> result.wallBounced, obstacleBounced |-> result.obstacleBounced,
                 outOfBounds |-> result.outOfBounds, goalEntry |-> checkGoalEntry(ball, lv.goal),
                 bouncesBefore |-> s.bounces, bouncesAfter |-> bounceCount,
                 starsBefore |-> s.stars, starsAfter |-> col.flags,
                 ballBefore |-> s.ball, ballAfter |-> ball, fired |-> fired]
        s1 == [s EXCEPT !.ball = ball, !.bounces = bounceCount, !.stars = col.flags,
                        !.queue = col.queue, !.ticks = Append(s.ticks, tick), !.fired = fired]
    IN IF fired = "won"
       THEN [s1 EXCEPT !.winFired = TRUE, !.winCalls = s.winCalls + 1,
                       !.calls = Append(s.calls, handleWinCall(lv.id, score, starsCount)),
                       !.queue = col.queue \o <<setFinalScore(score), setFinalStars(starsCount),
                                                setPhase("won")>>]
       ELSE IF fired # "none"
       THEN [s1 EXCEPT !.loseFired = TRUE, !.loseCalls = s.loseCalls + 1,
                       !.queue = col.queue \o <<setFinalScore(NullScore), setPhase("lost")>>]
       ELSE s1

\* the star loop and what follows it
CollectStep(s, lv, result, bounceCount) ==
    CheckStep(s, lv, result, bounceCount,
              collectStars(result.ball, lv.stars, s.stars,
                           IF bounceCount # s.bounces
                           THEN Append(s.queue, setBounces(bounceCount)) ELSE s.queue,
                           1))

\* the bounce count and what follows it
CountStep(s, lv, result) == CollectStep(s, lv, result, CountBounce(s.bounces, result))

\* one pass of the loop body
LoopStep(s, lv) == CountStep(s, lv, stepPhysics(s.ball, lv.obstacles))

\* the loop "for (let s = 0; s < Math.min(steps, 3); s++)" with n passes left
RECURSIVE LoopSteps(_, _, _)
LoopSteps(s, lv, n) ==
    IF n <= 0 \/ s.fired # "none" THEN s ELSE LoopSteps(LoopStep(s, lv), lv, n - 1)

\* a loop that also steps the ball while the flight is paused
LoopRuns_Paused(p) == p = "playing" \/ p = "paused"

\* a loop without the cap on the steps of one frame
StepsToRun_Uncapped(steps) == steps

\* Math.min(steps, 3): the passes of the loop in one frame
StepsToRun(steps) == Min(steps, MaxStepsPerFrame)

\* the loop's phase guard
LoopRuns(p) == p = "playing"

\* a loop that takes from the interval only the time of the steps it ran, and
\* carries the rest over to the next frame
LastTimeAfter_Carried(last, now, ran) == Min(now, last + TDiv(ran * 1667, 100))

\* "lastTime = now" at the end of a frame that measured its interval from last
\* and ran so many steps: the time the next frame measures its interval from
LastTimeAfter(last, now, ran) == now

\* what a frame callback leaves when the loop ran in Playing and ended in s
Played(s, now) ==
    /\ elapsedRef' = s.elapsed
    /\ ballRef' = s.ball
    /\ bouncesRef' = s.bounces
    /\ starsCollectedRef' = s.stars
    /\ winFiredRef' = s.winFired
    /\ loseFiredRef' = s.loseFired
    /\ winCalls' = s.winCalls
    /\ loseCalls' = s.loseCalls
    /\ pending' = s.queue
    /\ ticks' = s.ticks
    /\ lastTime' = IF s.fired = "none" THEN LastTimeAfter(lastTime, now, Len(s.ticks))
                   ELSE lastTime
    /\ rafScheduled' = (s.fired = "none")
    /\ staleFrames' = staleFrames
    /\ progressCalls' = progressCalls \o s.calls
    /\ localStorage' = IF s.calls = <<>> THEN localStorage
                        ELSE updateLevelProgress(localStorage, s.calls[1][1], s.calls[1][2],
                                                 s.calls[1][3])

\* the loop's state on entry, at time now
LoopEntry(now) ==
    [ball |-> ballRef, bounces |-> bouncesRef, stars |-> starsCollectedRef,
     winFired |-> winFiredRef, loseFired |-> loseFiredRef,
     winCalls |-> winCalls, loseCalls |-> loseCalls, elapsed |-> now - startTimeRef,
     queue |-> <<setElapsedTime(now - startTimeRef)>>, ticks |-> <<>>, fired |-> "none",
     calls |-> <<>>]

\* the frame callback loop(now)
LoopFrame(d) ==
    /\ rafScheduled
    /\ pending = <<>>
    /\ clock + d <= MaxClock
    /\ clock' = clock + d
    /\ UNCHANGED <<level, page, requested, gameData, restartedFrom, uiVars, dragStartRef, dragCurrentRef, startTimeRef, phaseRef>>
    /\ IF LoopRuns(phaseRef)
       THEN Played(LoopSteps(LoopEntry(clock + d), level,
                             StepsToRun(StepCount(clock + d - lastTime))),
                   clock + d)
       ELSE /\ lastTime' = clock + d
            /\ UNCHANGED <<localStorage, progressCalls, ticks, elapsedRef, ballRef, bouncesRef, starsCollectedRef, winFiredRef,
                           loseFiredRef, winCalls, loseCalls, pending, rafScheduled, staleFrames>>

Frame(d) == LoopFrame(d) /\ UNCHANGED <<played, preview>>

\* the frame callback, with the record of the steps it ran and the time it saw
TimedFrame(d) ==
    /\ LoopFrame(d)
    /\ UNCHANGED preview
    /\ played' = IF LoopRuns(phaseRef)
                  THEN [steps |-> played.steps + Len(ticks'),
                        time |-> played.time + (clock' - lastTime),
                        capped |-> played.capped \/ StepCount(clock' - lastTime) > MaxStepsPerFrame]
                  ELSE played

\* React's scheduled task: the updates a frame callback requested reach the page
Commit ==
    /\ pending # <<>>
    /\ Render(pending, Refs, clock)
    /\ UNCHANGED <<level, preview, storeVars, restartedFrom, played, clock, ticks>>

\* ------------------------------------------------------------ mouse
Point(lv, off) == <<lv.ballStart[1] + off[1], lv.ballStart[2] + off[2]>>

handleMouseDown(pos) ==
    /\ phaseRef = "aiming"
    /\ LET dx == pos[1] - ballRef.x
           dy == pos[2] - ballRef.y
       IN IF Sqrt(dx * dx + dy * dy) < BALL_RADIUS * 3
          THEN /\ dragStartRef' = <<ballRef.x, ballRef.y>>
               /\ dragCurrentRef' = pos
          ELSE UNCHANGED <<dragStartRef, dragCurrentRef>>
    /\ UNCHANGED <<level, preview, storeVars, restartedFrom, played, uiVars, starsCollectedRef, bouncesRef, ballRef, startTimeRef, elapsedRef,
                   phaseRef, winFiredRef, loseFiredRef, lastTime, rafScheduled, staleFrames, pending, clock,
                   winCalls, loseCalls, ticks>>

handleMouseMove(pos) ==
    /\ phaseRef = "aiming"
    /\ dragStartRef # Null
    /\ dragCurrentRef' = pos
    /\ UNCHANGED <<level, preview, storeVars, restartedFrom, played, uiVars, starsCollectedRef, bouncesRef, ballRef, dragStartRef, startTimeRef,
                   elapsedRef, phaseRef, winFiredRef, loseFiredRef, lastTime, rafScheduled, staleFrames, pending,
                   clock, winCalls, loseCalls, ticks>>

\* a drag whose length is not clamped
DragDist_Unclamped(mag) == mag

\* the drag's length, clamped
DragDist(mag) == Min(mag, MAX_DRAG_DIST)

\* a threshold that also discards a drag of exactly the minimum length
TooShort_Inclusive(dist) == dist <= MinDrag

\* the drag is discarded
TooShort(dist) == dist < MinDrag

\* (d / mag) * dist * LAUNCH_POWER
LaunchVelocity(d, mag, dist) == TDiv(d * dist * 12, mag * 100)

handleMouseUp(end) ==
    /\ phaseRef = "aiming"
    /\ dragStartRef # Null
    /\ LET dx == end[1] - dragStartRef[1]
           dy == end[2] - dragStartRef[2]
           mag == Sqrt(dx * dx + dy * dy)
           dist == DragDist(mag)
       IN IF TooShort(dist)
          THEN /\ dragStartRef' = Null
               /\ dragCurrentRef' = Null
               /\ clock' = clock
               /\ played' = played
               /\ UNCHANGED <<uiVars, starsCollectedRef, bouncesRef, ballRef, startTimeRef, elapsedRef,
                              phaseRef, winFiredRef, loseFiredRef, lastTime, rafScheduled, staleFrames, pending,
                              winCalls, loseCalls>>
          ELSE /\ clock' = 0
               /\ played' = NotPlayed
               /\ Render(Append(pending, setPhase("playing")),
                    [Refs EXCEPT !.ball = [ballRef EXCEPT !.vx = LaunchVelocity(dx, mag, dist),
                                                          !.vy = LaunchVelocity(dy, mag, dist)],
                                 !.dragStart = Null,
                                 !.dragCurrent = Null,
                                 !.startTime = 0],
                    0)
    /\ UNCHANGED <<level, preview, storeVars, restartedFrom, ticks>>

\* ------------------------------------------------------------ buttons
\* a render that applies the updates of the click before those requested earlier
RestartUpdates_First(q) ==
    <<setPhase("aiming"), setStarsCollectedNone, setBounces(0), setElapsedTime(0),
      setFinalScore(NullScore), setFinalStars(0), setGameKeyNext>> \o q

\* the updates a Restart click requests, behind those q requested before it
RestartUpdates(q) ==
    q \o <<setPhase("aiming"), setStarsCollectedNone, setBounces(0), setElapsedTime(0),
           setFinalScore(NullScore), setFinalStars(0), setGameKeyNext>>

handleRestart ==
    /\ gameKey < MaxRestarts
    /\ Render(RestartUpdates(pending),
              [Refs EXCEPT !.stars = <<FALSE, FALSE, FALSE>>, !.bounces = 0], clock)
    /\ ticks' = <<>>
    /\ restartedFrom' = phase
    /\ played' = NotPlayed
    /\ progressCalls' = <<>>
    /\ UNCHANGED <<level, preview, page, requested, gameData, localStorage, clock>>

\* the phase the Pause/Resume handler asks for, given the phase it was rendered with
PauseTarget(p) == IF p = "playing" THEN "paused" ELSE IF p = "paused" THEN "playing" ELSE p

\* a click on an enabled Pause/Resume button
handlePause ==
    /\ ~(phase = "aiming" \/ phase = "won" \/ phase = "lost")
    /\ Render(IF PauseTarget(phase) # phase THEN Append(pending, setPhase(PauseTarget(phase)))
              ELSE pending, Refs, clock)
    /\ UNCHANGED <<level, preview, storeVars, restartedFrom, played, clock, ticks>>

\* the reason the loss overlay shows
LossReason(bounceCount, lv) ==
    IF bounceCount > lv.maxBounces THEN "Max bounces exceeded!" ELSE "Ball out of bounds!"

\* ------------------------------------------------------------ specification
\* the stored item when level id is visited for the first time: absent for level
\* 1, and every level below id won once for the others
RECURSIVE VisitStore(_)
VisitStore(id) ==
    IF id <= 1 THEN Null ELSE updateLevelProgress(VisitStore(id - 1), id - 1, 1600, 1)

Init ==
    /\ level \in Levels
    /\ phase = "aiming"
    /\ starsCollected = <<FALSE, FALSE, FALSE>>
    /\ bounces = 0
    /\ elapsedTime = 0
    /\ finalScore = NullScore
    /\ finalStars = 0
    /\ gameKey = 0
    /\ starsCollectedRef = AllFalse(level.stars)
    /\ bouncesRef = 0
    /\ ballRef = Ball(level.ballStart[1], level.ballStart[2], 0, 0)
    /\ dragStartRef = Null
    /\ dragCurrentRef = Null
    /\ startTimeRef = 0
    /\ elapsedRef = 0
    /\ phaseRef = "aiming"
    /\ winFiredRef = FALSE
    /\ loseFiredRef = FALSE
    /\ lastTime = 0
    /\ rafScheduled = TRUE
    /\ staleFrames = 0
    /\ pending = <<>>
    /\ clock = 0
    /\ winCalls = 0
    /\ loseCalls = 0
    /\ ticks = <<>>
    /\ restartedFrom = "none"
    /\ played = NotPlayed
    /\ preview = Null
    /\ page = level.id
    /\ requested = level.id
    /\ gameData = Null
    /\ localStorage = VisitStore(level.id)
    /\ progressCalls = <<>>

Next ==
    \/ \E d \in FrameDts(phaseRef) : Frame(d)
    \/ Commit
    \/ \E off \in PressOffsets : handleMouseDown(Point(level, off))
    \/ \E off \in MoveOffsets : handleMouseMove(Point(level, off))
    \/ \E off \in ReleaseOffsets : handleMouseUp(Point(level, off))
    \/ handleRestart
    \/ handlePause

Spec == Init /\ [][Next]_vars

\* ---- the score of a win, for the bounce counts and times of ScoreInit
ScoreBounces == {0, 1, 19, 20, 21, 40}
ScoreTimes == {0, 50, 1234, 59900, 59901, 60000, 60001, 90000}

ScoreInit ==
    /\ level \in Levels
    /\ phase = "playing"
    /\ starsCollected = <<FALSE, FALSE, FALSE>>
    /\ bounces = 0
    /\ elapsedTime = 0
    /\ finalScore = NullScore
    /\ finalStars = 0
    /\ gameKey = 0
    /\ starsCollectedRef \in [1..3 -> BOOLEAN]
    /\ bouncesRef \in ScoreBounces
    /\ ballRef = Ball(level.ballStart[1], level.ballStart[2], 0, 0)
    /\ dragStartRef = Null
    /\ dragCurrentRef = Null
    /\ startTimeRef = 0
    /\ elapsedRef \in ScoreTimes
    /\ phaseRef = "playing"
    /\ winFiredRef = FALSE
    /\ loseFiredRef = FALSE
    /\ lastTime = 0
    /\ rafScheduled = TRUE
    /\ staleFrames = 0
    /\ pending = <<>>
    /\ clock = 0
    /\ winCalls = 0
    /\ loseCalls = 0
    /\ ticks = <<>>
    /\ restartedFrom = "none"
    /\ played = NotPlayed
    /\ preview = Null
    /\ page = level.id
    /\ requested = level.id
    /\ gameData = Null
    /\ localStorage = VisitStore(level.id)
    /\ progressCalls = <<>>

\* the win's score is computed and shown
ScoreWin ==
    /\ finalScore = NullScore
    /\ finalScore' = calculateScore(CountTrue(starsCollectedRef), bouncesRef, elapsedRef,
                                     level.maxBounces)
    /\ finalStars' = CountTrue(starsCollectedRef)
    /\ UNCHANGED <<level, preview, phase, starsCollected, bounces, elapsedTime, gameKey, refVars, pending,
                   clock, ticks, restartedFrom, played, storeVars>>

ScoreNext == ScoreWin

ScoreSpec == ScoreInit /\ [][ScoreNext]_vars

\* ---- navigation and persistence: the pages, with a flight left out and a
\* win given by its total and its stars
StoreScores == { <<1900, 1>>, <<1600, 3>> }
StoredItems == { Null, NotJson }

\* a game page on which nothing was played: the session of Init
Unplayed ==
    /\ phase = "aiming"
    /\ starsCollected = <<FALSE, FALSE, FALSE>>
    /\ bounces = 0
    /\ elapsedTime = 0
    /\ finalScore = NullScore
    /\ finalStars = 0
    /\ gameKey = 0
    /\ starsCollectedRef = AllFalse(level.stars)
    /\ bouncesRef = 0
    /\ ballRef = Ball(level.ballStart[1], level.ballStart[2], 0, 0)
    /\ dragStartRef = Null
    /\ dragCurrentRef = Null
    /\ startTimeRef = 0
    /\ elapsedRef = 0
    /\ phaseRef = "aiming"
    /\ winFiredRef = FALSE
    /\ loseFiredRef = FALSE
    /\ lastTime = 0
    /\ rafScheduled = TRUE
    /\ staleFrames = 0
    /\ pending = <<>>
    /\ clock = 0
    /\ winCalls = 0
    /\ loseCalls = 0
    /\ ticks = <<>>
    /\ restartedFrom = "none"
    /\ played = NotPlayed
    /\ preview = Null

\* what the pages of StoreSpec leave alone
flightVars == <<level, preview, starsCollected, bounces, elapsedTime, finalScore, finalStars, gameKey,
                refVars, pending, clock, ticks, restartedFrom, played>>

\* an access check that lets every level in
AccessDenied_Never(id, data) == FALSE

\* id > data.currentUnlockedLevel
AccessDenied(id, data) == id > data.currentUnlockedLevel

\* LEVELS.find((l) => l.id === id) finds a level
LevelFound(id) == id \in 1..NumLevels

\* the route once GamePage has mounted with id and its effects have run
EnteredPage(id, raw) ==
    IF ~LevelFound(id) \/ AccessDenied(id, loadGameData(raw)) THEN 0 ELSE id

\* LevelSelectPage is mounted when the route is 0: its mount effect loads gameData
MountedData(route, raw) == IF route = 0 THEN Some(loadGameData(raw)) ELSE Null

\* navigate('/game/' + id) from another page: GamePage mounts
Route(id) ==
    /\ page' = EnteredPage(id, localStorage)
    /\ requested' = id
    /\ gameData' = MountedData(EnteredPage(id, localStorage), localStorage)
    /\ phase' = "aiming"
    /\ progressCalls' = <<>>
    /\ UNCHANGED <<localStorage, flightVars>>

StoreInit ==
    /\ level = Level1
    /\ Unplayed
    /\ page = 0
    /\ requested = 0
    /\ localStorage \in StoredItems
    /\ gameData = MountedData(0, localStorage)
    /\ progressCalls = <<>>

handleLevelClick(levelId) ==
    /\ page = 0
    /\ gameData # Null
    /\ IF levelId <= gameData[1].currentUnlockedLevel
       THEN Route(levelId)
       ELSE /\ requested' = levelId
            /\ UNCHANGED <<page, gameData, phase, progressCalls, localStorage, flightVars>>

\* the address of a game page is opened
OpenGame(id) == Route(id)

\* navigate('/') of a game page
OpenSelect ==
    /\ page # 0
    /\ page' = 0
    /\ gameData' = MountedData(0, localStorage)
    /\ phase' = "aiming"
    /\ progressCalls' = <<>>
    /\ UNCHANGED <<requested, localStorage, flightVars>>

\* a flight of the page's level is won with this total and these stars
handleWin(total, stars) ==
    /\ page # 0
    /\ phase = "aiming"
    /\ phase' = "won"
    /\ progressCalls' = Append(progressCalls, <<page, total, stars>>)
    /\ localStorage' = updateLevelProgress(localStorage, page, total, stars)
    /\ UNCHANGED <<page, requested, gameData, flightVars>>

\* Play Again of the win overlay
PlayAgain ==
    /\ page # 0
    /\ phase = "won"
    /\ phase' = "aiming"
    /\ progressCalls' = <<>>
    /\ UNCHANGED <<page, requested, gameData, localStorage, flightVars>>

\* Next Level of the win overlay: GamePage stays mounted when the route is a
\* game page again, and so does its phase
handleNextLevel ==
    /\ page # 0
    /\ phase = "won"
    /\ IF page < NumLevels
       THEN /\ page' = EnteredPage(page + 1, localStorage)
            /\ requested' = page + 1
            /\ gameData' = MountedData(EnteredPage(page + 1, localStorage), localStorage)
            /\ phase' = IF EnteredPage(page + 1, localStorage) = 0 THEN "aiming" ELSE phase
       ELSE /\ page' = 0
            /\ requested' = requested
            /\ gameData' = MountedData(0, localStorage)
            /\ phase' = "aiming"
    /\ progressCalls' = <<>>
    /\ UNCHANGED <<localStorage, flightVars>>

StoreNext ==
    \/ \E id \in 1..NumLevels : handleLevelClick(id)
    \/ \E id \in 0..(NumLevels + 1) : OpenGame(id)
    \/ OpenSelect
    \/ \E s \in StoreScores : handleWin(s[1], s[2])
    \/ PlayAgain
    \/ handleNextLevel

StoreSpec == StoreInit /\ [][StoreNext]_vars

\* ---- saveGameData and loadGameData: gameData holds the data that is saved,
\* until the page is loaded again
SavedProgress(i) ==
    { LevelProgress(i, Null, Null, FALSE), LevelProgress(i, Some(0), Some(0), TRUE),
      LevelProgress(i, Some(1900), Some(3), TRUE), LevelProgress(i, Some(1600), Null, FALSE) }

SavedData ==
    { [currentUnlockedLevel |-> c,
       levels |-> [i \in 1..NumLevels |->
                     IF i = 1 THEN p ELSE IF i = NumLevels THEN q
                     ELSE LevelProgress(i, Null, Null, i < c)]] :
      c \in {1, 3, NumLevels}, p \in SavedProgress(1), q \in SavedProgress(NumLevels) }

SaveInit ==
    /\ level = Level1
    /\ Unplayed
    /\ page = 1
    /\ requested = 1
    /\ localStorage = Null
    /\ gameData \in { Some(d) : d \in SavedData }
    /\ progressCalls = <<>>

SaveData ==
    /\ page = 1
    /\ localStorage = Null
    /\ localStorage' = saveGameData(gameData[1])
    /\ UNCHANGED <<page, requested, gameData, phase, progressCalls, flightVars>>

\* the page is loaded again at level select
Reload ==
    /\ page = 1
    /\ localStorage # Null
    /\ page' = 0
    /\ gameData' = MountedData(0, localStorage)
    /\ UNCHANGED <<requested, localStorage, phase, progressCalls, flightVars>>

SaveNext == SaveData \/ Reload

SaveSpec == SaveInit /\ [][SaveNext]_vars

\* ---- loadGameData and updateLevelProgress, called on stored items that are
\* missing, broken, short of entries or without an entry for a level; gameData
\* holds what the last call returned
MaxWins == 3

\* the item of a levels list with the entries of these level ids, nothing won
ItemOf(ids) ==
    JsonStringify([currentUnlockedLevel |-> 1,
                   levels |-> [i \in 1..Len(ids) |-> LevelProgress(ids[i], Null, Null, FALSE)]])

NoLevels == ItemOf(<<>>)
FewLevels == ItemOf(<<1, 2, 3, 4>>)
OtherLevels == ItemOf(<<1, 2, 3, 4, 7>>)
ProgressItems == { Null, NotJson, NoLevels, FewLevels, OtherLevels, ItemOf(<<1, 2, 3, 4, 5>>) }
ProgressIds == {1, NumLevels, NumLevels + 1}
ProgressScores == { <<1900, 1>>, <<1600, 3>>, <<1700, 2>> }

ProgressInit ==
    /\ level = Level1
    /\ Unplayed
    /\ page = 1
    /\ requested = 1
    /\ localStorage \in ProgressItems
    /\ gameData = Null
    /\ progressCalls = <<>>

\* a call of loadGameData()
LoadCall ==
    /\ gameData' = Some(loadGameData(localStorage))
    /\ UNCHANGED <<page, requested, localStorage, phase, progressCalls, flightVars>>

\* a call of updateLevelProgress(levelId, score, starsCollected)
UpdateCall(levelId, score, starsCollected_) ==
    /\ Len(progressCalls) < MaxWins
    /\ localStorage' = updateLevelProgress(localStorage, levelId, score, starsCollected_)
    /\ gameData' = Some(UpdateReturned(loadGameData(localStorage), levelId, score,
                                       starsCollected_))
    /\ progressCalls' = Append(progressCalls, <<levelId, score, starsCollected_>>)
    /\ UNCHANGED <<page, requested, phase, flightVars>>

ProgressNext ==
    \/ LoadCall
    \/ \E id \in ProgressIds, s \in ProgressScores : UpdateCall(id, s[1], s[2])

ProgressSpec == ProgressInit /\ [][ProgressNext]_vars

\* ---- the collision resolvers, run twice against one obstacle: the rect of
\* level 2 and the circle of level 3, and balls about the rect's corner and the circle's centre
ResolveObstacles ==
    { [type |-> "rect", x |-> 3700, y |-> 1500, width |-> 200, height |-> 3200],
      [type |-> "circle", x |-> 6200, y |-> 3900, radius |-> 350] }
ResolveOffsetsX == {-480, -400, -130, -100, -50, 0, 60, 100}
ResolveOffsetsY == {-130, -90, -50, 0, 40}
ResolveVelocities == { <<30, -20>>, <<-30, 20>> }

ResolveInit ==
    /\ level \in { [Level1 EXCEPT !.obstacles = <<o>>] : o \in ResolveObstacles }
    /\ Unplayed
    /\ page = level.id
    /\ requested = level.id
    /\ gameData = Null
    /\ localStorage = Null
    /\ progressCalls = <<>>

\* the ball is somewhere about the obstacle
PlaceBall ==
    /\ ticks = <<>>
    /\ ballRef = Ball(level.ballStart[1], level.ballStart[2], 0, 0)
    /\ \E dx \in ResolveOffsetsX, dy \in ResolveOffsetsY, v \in ResolveVelocities :
           ballRef' = Ball(level.obstacles[1].x + dx, level.obstacles[1].y + dy, v[1], v[2])
    /\ UNCHANGED <<level, preview, uiVars, starsCollectedRef, bouncesRef, dragStartRef, dragCurrentRef,
                   startTimeRef, elapsedRef, phaseRef, winFiredRef, loseFiredRef, lastTime,
                   rafScheduled, staleFrames, winCalls, loseCalls, pending, clock, ticks, restartedFrom,
                   played, storeVars>>

\* the resolver of the obstacle's type runs on the ball; a first run that
\* reports no bounce is not followed up
Resolved(result) ==
    /\ ticks = <<>> => result.bounced
    /\ ballRef' = result.ball
    /\ ticks' = Append(ticks, [obstacleBounced |-> result.bounced, ballBefore |-> ballRef,
                                ballAfter |-> result.ball])

Resolve ==
    /\ ballRef # Ball(level.ballStart[1], level.ballStart[2], 0, 0)
    /\ Len(ticks) < 2
    /\ Resolved(resolveObstacle(ballRef, level.obstacles[1]))
    /\ UNCHANGED <<level, preview, uiVars, starsCollectedRef, bouncesRef, dragStartRef, dragCurrentRef,
                   startTimeRef, elapsedRef, phaseRef, winFiredRef, loseFiredRef, lastTime,
                   rafScheduled, staleFrames, winCalls, loseCalls, pending, clock, restartedFrom, played,
                   storeVars>>

ResolveNext == PlaceBall \/ Resolve

ResolveSpec == ResolveInit /\ [][ResolveNext]_vars

\* ---- the trajectory predictor and the preview that draw makes of it
PreviewSteps == 80

\* a pass that also emits the position of the tick that is out of bounds
Passed_EmitsLast(st, result, i) ==
    [current |-> result.ball, stopped |-> result.outOfBounds,
     points |-> IF i % 4 = 0 THEN Append(st.points, <<result.ball.x, result.ball.y>>)
                ELSE st.points]

\* pass i of the loop "for (let i = 0; i < steps; i++)" of simulateTrajectory,
\* given the result of its stepPhysics: current, the break, and the push
Passed(st, result, i) ==
    [current |-> result.ball, stopped |-> result.outOfBounds,
     points |-> IF ~result.outOfBounds /\ i % 4 = 0
                THEN Append(st.points, <<result.ball.x, result.ball.y>>)
                ELSE st.points]

\* pass i; no pass runs after the break
Pass(st, obstacles, i) ==
    IF st.stopped THEN st ELSE Passed(st, stepPhysics(st.current, obstacles), i)

\* the n passes i, i + 1, ... in this order: the first half of them, then the
\* rest from where the first half ends (mid), unless the loop broke there;
\* halving keeps the evaluation shallow
RECURSIVE Passes(_, _, _, _)
PassesAfter(mid, obstacles, i, n) ==
    IF mid.stopped THEN mid ELSE Passes(mid, obstacles, i, n)

\* the n passes from pass i on, none if n = 0
Passes(st, obstacles, i, n) ==
    IF n = 0 THEN st
    ELSE IF n = 1 THEN Pass(st, obstacles, i)
    ELSE PassesAfter(Passes(st, obstacles, i, n \div 2), obstacles, i + n \div 2, n - n \div 2)

\* a predictor that carries its pass counter on from where the clock stands
simulateTrajectory_Carried(ball, obstacles, steps) ==
    Passes([current |-> ball, stopped |-> FALSE, points |-> <<>>], obstacles,
           (clock \div 64) % 4, steps).points

\* the points returned; "let current = { ...ball }" leaves the argument alone
simulateTrajectory(ball, obstacles, steps) ==
    Passes([current |-> ball, stopped |-> FALSE, points |-> <<>>], obstacles, 0, steps).points

\* the call's record: the argument as the call leaves it, the points, and
\* whether the call before it had the same arguments
Predicted(ball, obstacles, steps) ==
    Some([ball |-> ball, steps |-> steps, points |-> simulateTrajectory(ball, obstacles, steps),
          again |-> preview # Null /\ preview[1].ball = ball /\ preview[1].steps = steps])

\* a preview that does not clamp the length of the drag
PreviewBall_Unclamped(ball, ds, dc, mag) ==
    Ball(ball.x, ball.y,
         IF mag > 0 THEN LaunchVelocity(dc[1] - ds[1], mag, mag) ELSE 0,
         IF mag > 0 THEN LaunchVelocity(dc[2] - ds[2], mag, mag) ELSE 0)

\* draw's previewBall, for the drag from ds to dc of length mag
PreviewBall(ball, ds, dc, mag) ==
    Ball(ball.x, ball.y,
         IF mag > 0 THEN LaunchVelocity(dc[1] - ds[1], mag, Min(mag, MAX_DRAG_DIST)) ELSE 0,
         IF mag > 0 THEN LaunchVelocity(dc[2] - ds[2], mag, Min(mag, MAX_DRAG_DIST)) ELSE 0)

\* draw's aiming overlay: the preview of a drag under way
DrawnPreview ==
    IF phaseRef = "aiming" /\ dragStartRef # Null /\ dragCurrentRef # Null
    THEN Predicted(PreviewBall(ballRef, dragStartRef, dragCurrentRef,
                               Sqrt((dragCurrentRef[1] - dragStartRef[1])
                                      * (dragCurrentRef[1] - dragStartRef[1])
                                    + (dragCurrentRef[2] - dragStartRef[2])
                                      * (dragCurrentRef[2] - dragStartRef[2]))),
                   level.obstacles, PreviewSteps)
    ELSE preview

\* the frame callback, with the preview that its draw makes
DrawFrame(d) ==
    /\ LoopFrame(d)
    /\ preview' = DrawnPreview
    /\ UNCHANGED played

\* aiming: the drag and the frames that draw it
PreviewNext ==
    \/ \E d \in FrameDts(phaseRef) : DrawFrame(d)
    \/ \E off \in PressOffsets : handleMouseDown(Point(level, off))
    \/ \E off \in ReleaseOffsets : handleMouseMove(Point(level, off))

PreviewSpec == Init /\ [][PreviewNext]_vars

\* ---- the stepper, run on balls about the walls, two obstacles at the left
\* wall, the goal and the bottom edge
StepRect == [type |-> "rect", x |-> 200, y |-> 1000, width |-> 200, height |-> 1000]
StepCircle == [type |-> "circle", x |-> 300, y |-> 800, radius |-> 120]
StepObstacleLists == { <<>>, <<StepRect, StepCircle>>, <<StepCircle, StepRect>> }
StepXs == {150, 160, 300, 3259, 3260, 3261, 4000, 7850}
StepYs == {150, 800, 900, 1100, 2160, 2161, 5739, 5740, 5741}
StepVelocities ==
    { <<0, -3>>, <<0, 0>>, <<1, -3>>, <<-50, -3>>, <<50, -3>>, <<0, -50>>, <<-30, 20>> }

StepInit ==
    /\ level \in { [Level1 EXCEPT !.obstacles = o] : o \in StepObstacleLists }
    /\ Unplayed
    /\ page = level.id
    /\ requested = level.id
    /\ gameData = Null
    /\ localStorage = Null
    /\ progressCalls = <<>>

\* the ball is given a position and a velocity
PlaceStepBall ==
    /\ ticks = <<>>
    /\ ballRef = Ball(level.ballStart[1], level.ballStart[2], 0, 0)
    /\ \E x \in StepXs, y \in StepYs, v \in StepVelocities : ballRef' = Ball(x, y, v[1], v[2])
    /\ UNCHANGED <<level, preview, uiVars, starsCollectedRef, bouncesRef, dragStartRef, dragCurrentRef,
                   startTimeRef, elapsedRef, phaseRef, winFiredRef, loseFiredRef, lastTime,
                   rafScheduled, staleFrames, winCalls, loseCalls, pending, clock, ticks, restartedFrom,
                   played, storeVars>>

\* what one call of the stepper leaves: the ball, and the call's record
Stepped(result) ==
    /\ ballRef' = result.ball
    /\ ticks' = Append(ticks, [wallBounced |-> result.wallBounced,
                                obstacleBounced |-> result.obstacleBounced,
                                outOfBounds |-> result.outOfBounds,
                                goalEntry |-> checkGoalEntry(result.ball, level.goal),
                                ballBefore |-> ballRef, ballAfter |-> result.ball])

Step ==
    /\ ballRef # Ball(level.ballStart[1], level.ballStart[2], 0, 0)
    /\ Len(ticks) < 2
    /\ Stepped(stepPhysics(ballRef, level.obstacles))
    /\ UNCHANGED <<level, preview, uiVars, starsCollectedRef, bouncesRef, dragStartRef, dragCurrentRef,
                   startTimeRef, elapsedRef, phaseRef, winFiredRef, loseFiredRef, lastTime,
                   rafScheduled, staleFrames, winCalls, loseCalls, pending, clock, restartedFrom, played,
                   storeVars>>

StepNext == PlaceStepBall \/ Step

StepSpec == StepInit /\ [][StepNext]_vars

\* ---- the predictor, called on the balls of StepSpec
PredictSteps == {0, 1, 4, 5, 9, PreviewSteps}

Predict(n) ==
    /\ ballRef # Ball(level.ballStart[1], level.ballStart[2], 0, 0)
    /\ preview' = Predicted(ballRef, level.obstacles, n)
    /\ UNCHANGED <<level, uiVars, refVars, pending, clock, ticks, restartedFrom, played,
                   storeVars>>

PredictNext == PlaceStepBall \/ \E n \in PredictSteps : Predict(n)

PredictSpec == StepInit /\ [][PredictNext]_vars

\* a launch and its flight, frame by frame, without Pause and Restart
FlightNext ==
    \/ \E d \in FrameDts(phaseRef) : TimedFrame(d)
    \/ Commit
    \/ \E off \in PressOffsets : handleMouseDown(Point(level, off))
    \/ \E off \in MoveOffsets : handleMouseMove(Point(level, off))
    \/ \E off \in ReleaseOffsets : handleMouseUp(Point(level, off))

FlightSpec == Init /\ [][FlightNext]_vars

\* a flight with Pause and Resume, the time of its Playing frames recorded
PauseNext == FlightNext \/ handlePause

PauseSpec == Init /\ [][PauseNext]_vars

\* ---- a flight for as long as it lasts: the frame callbacks keep arriving
\* after the clock of the model has counted to MaxClock. From then on the
\* readings of performance.now() stay at MaxClock (the elapsed time, which no
\* check of the loop reads, stops there) and the interval of the frame is d
LateFrame(d) ==
    /\ rafScheduled
    /\ pending = <<>>
    /\ clock + d > MaxClock
    /\ UNCHANGED <<clock, level, page, requested, gameData, restartedFrom, uiVars, dragStartRef,
                   dragCurrentRef, startTimeRef, phaseRef, played, preview>>
    /\ IF LoopRuns(phaseRef)
       THEN Played(LoopSteps(LoopEntry(clock), level,
                             StepsToRun(StepCount(clock + d - lastTime))),
                   clock)
       ELSE /\ lastTime' = clock
            /\ UNCHANGED <<localStorage, progressCalls, ticks, elapsedRef, ballRef, bouncesRef,
                           starsCollectedRef, winFiredRef, loseFiredRef, winCalls, loseCalls,
                           pending, rafScheduled, staleFrames>>

\* the frame callback the browser runs next
NextFrame == \E d \in FrameDts(phaseRef) : Frame(d) \/ LateFrame(d)

TerminationNext ==
    \/ NextFrame
    \/ Commit
    \/ \E off \in PressOffsets : handleMouseDown(Point(level, off))
    \/ \E off \in ReleaseOffsets : handleMouseUp(Point(level, off))

\* the browser runs every frame callback that is scheduled, and React renders
\* every update that was requested
TerminationSpec ==
    Init /\ [][TerminationNext]_vars /\ WF_vars(NextFrame) /\ WF_vars(Commit)

\* ---- a drag, the frames that preview it, the release at the point last
\* previewed, and the flight
\* the preview last drawn is the one draw makes of the drag as it stands
Previewed ==
    /\ phaseRef = "aiming"
    /\ dragStartRef # Null
    /\ dragCurrentRef # Null
    /\ preview # Null
    /\ preview[1].ball = DrawnPreview[1].ball

\* the frame callback, with the preview that its draw makes and the count of
\* the steps run since the launch
AimedFrame(d) ==
    /\ LoopFrame(d)
    /\ preview' = DrawnPreview
    /\ played' = IF LoopRuns(phaseRef)
                  THEN [played EXCEPT !.steps = played.steps + Len(ticks'),
                                      !.time = played.time + (clock' - lastTime)]
                  ELSE played

\* the mouse button is released where the pointer was last previewed
ReleasePreviewed == Previewed /\ handleMouseUp(dragCurrentRef)

AimNext ==
    \/ \E d \in FrameDts(phaseRef) : AimedFrame(d)
    \/ Commit
    \/ \E off \in PressOffsets : handleMouseDown(Point(level, off))
    \/ \E off \in ReleaseOffsets : handleMouseMove(Point(level, off))
    \/ ReleasePreviewed

AimSpec == Init /\ [][AimNext]_vars

\* ---- the loop's frame callbacks from the launch until the page is left
\* GamePage and its GameCanvas are mounted
Mounted == page = level.id

\* navigate('/') of the game page: GameCanvas unmounts, the cleanup of the loop
\* effect runs, and the updates requested of the unmounted page are dropped
Leave ==
    /\ Mounted
    /\ page' = 0
    /\ gameData' = MountedData(0, localStorage)
    /\ rafScheduled' = cancelAnimationFrame(Refs).raf
    /\ staleFrames' = cancelAnimationFrame(Refs).stale
    /\ pending' = <<>>
    /\ UNCHANGED <<level, preview, uiVars, starsCollectedRef, bouncesRef, ballRef, dragStartRef,
                   dragCurrentRef, startTimeRef, elapsedRef, phaseRef, winFiredRef, loseFiredRef,
                   lastTime, winCalls, loseCalls, clock, ticks, restartedFrom, played,
                   requested, localStorage, progressCalls>>

\* the browser runs a scheduled callback whether or not the page is mounted;
\* React, the canvas and the buttons act on a mounted page only
LoopNext ==
    \/ \E d \in FrameDts(phaseRef) : Frame(d)
    \/ Mounted /\ Commit
    \/ \E off \in PressOffsets : Mounted /\ handleMouseDown(Point(level, off))
    \/ \E off \in ReleaseOffsets : Mounted /\ handleMouseUp(Point(level, off))
    \/ Mounted /\ handlePause
    \/ Leave

LoopSpec == Init /\ [][LoopNext]_vars

\* ---- a flight of level 1 and the Next Level button of its win overlay
\* the page after the render that follows the change of level: the reset effect
\* calls onBounceUpdate(0) and onTimeUpdate(0), nothing else sets GamePage state
NextLevelUi(ui) == [ui EXCEPT !.bounces = 0, !.elapsedTime = 0]

\* handleNextLevel on the win overlay of level 1: the route changes to level 2,
\* GamePage and GameCanvas stay mounted and render with the new level; the reset
\* effect and the loop effect, which depend on level, run again
NextLevelClick ==
    /\ Mounted
    /\ level = Level1
    /\ phase = "won" /\ finalScore # NullScore
    /\ ~AccessDenied(Level2.id, loadGameData(localStorage))
    /\ level' = Level2
    /\ page' = Level2.id
    /\ requested' = Level2.id
    /\ Rendered(NextLevelUi(ApplyUpdates(Ui, pending)),
                LoopEffect(ResetEffect(Refs, Level2), clock))
    /\ UNCHANGED <<preview, gameData, localStorage, progressCalls, clock, ticks, restartedFrom,
                   played>>

NextLevelInit ==
    /\ level = Level1
    /\ Unplayed
    /\ page = level.id
    /\ requested = level.id
    /\ gameData = Null
    /\ localStorage = VisitStore(level.id)
    /\ progressCalls = <<>>

NextLevelNext ==
    \/ \E d \in FrameDts(phaseRef) : Frame(d)
    \/ Commit
    \/ \E off \in PressOffsets : handleMouseDown(Point(level, off))
    \/ \E off \in ReleaseOffsets : handleMouseUp(Point(level, off))
    \/ NextLevelClick

NextLevelSpec == NextLevelInit /\ [][NextLevelNext]_vars

\* ------------------------------------------------------------ claims
Terminal(t) == t.fired # "none"

\* C1 (as claimed): within one session the win transition fires at most once,
\* the lose transition fires at most once, and they never both fire.
C1_Claimed == winCalls <= 1 /\ loseCalls <= 1 /\ winCalls + loseCalls <= 1

\* C2 (as claimed): once a frame has fired the win or lose transition the phase
\* is never Paused or Playing again until restart: it is Won or Lost, or still
\* Playing only while the frame's phase change has not reached the page.
C2_Claimed ==
    (winFiredRef \/ loseFiredRef) =>
        \/ phase \in {"won", "lost"}
        \/ phase = "playing" /\ pending # <<>>

\* the session as a restart must leave it
Restarted ==
    /\ phase = "aiming" /\ phaseRef = "aiming"
    /\ ballRef = Ball(level.ballStart[1], level.ballStart[2], 0, 0)
    /\ bouncesRef = 0 /\ bounces = 0
    /\ elapsedRef = 0 /\ elapsedTime = 0
    /\ \A i \in DOMAIN level.stars : ~starsCollectedRef[i] /\ ~starsCollected[i]
    /\ DOMAIN starsCollectedRef = DOMAIN level.stars
    /\ ~winFiredRef /\ ~loseFiredRef
    /\ winCalls = 0 /\ loseCalls = 0
    /\ dragStartRef = Null /\ dragCurrentRef = Null
    /\ finalScore = NullScore /\ finalStars = 0
    /\ pending = <<>>

\* C3: a restart, from any phase, leaves the session in Aiming with the ball at
\* ballStart with zero velocity, bounce counter 0, elapsed time 0, every
\* collected flag false, both latches cleared and no drag in flight.
C3_Restart == [][gameKey' # gameKey => Restarted']_vars

\* the session was restarted from a flight that had been won
C3_Witness == gameKey > 0 /\ Restarted /\ restartedFrom = "won"

FrameStep == \E d \in FrameDts(phaseRef) : Frame(d)

\* C4: a frame in a phase other than Playing leaves the ball, the bounce
\* counter, the collected-set, the elapsed time and both latches unchanged, and
\* no step taken while Paused, other than a restart, changes them: Resume
\* continues from the ball state held at Pause.
C4_Frozen ==
    [][/\ (FrameStep /\ phase # "playing") =>
              UNCHANGED <<ballRef, bouncesRef, starsCollectedRef, elapsedRef, winFiredRef, loseFiredRef>>
       /\ (phase = "paused" /\ gameKey' = gameKey) =>
              UNCHANGED <<ballRef, bouncesRef, starsCollectedRef, elapsedRef, winFiredRef, loseFiredRef>>
      ]_vars

\* the flight was resumed after frames ran while it was paused
C4_Witness ==
    /\ phase = "playing" /\ pending = <<>>
    /\ clock > startTimeRef + elapsedRef /\ elapsedRef > 0
    /\ ballRef.vy # 0

\* the squared length of a drag vector
LenSq(off) == off[1] * off[1] + off[2] * off[2]

MouseUpStep(off) == handleMouseUp(Point(level, off))

\* C5: a completed drag launches (Aiming to Playing) only when its length is at
\* least 5; a shorter drag is discarded: the phase stays Aiming, the ball is
\* unchanged and the drag is cleared.  No launch happens outside Aiming.
C5_Launch ==
    [][/\ \A off \in ReleaseOffsets :
              MouseUpStep(off) =>
                  /\ phase = "aiming"
                  /\ IF LenSq(off) >= MinDrag * MinDrag
                     THEN phase' = "playing" /\ phaseRef' = "playing"
                     ELSE phase' = "aiming" /\ phaseRef' = "aiming" /\ ballRef' = ballRef
                  /\ dragStartRef' = Null /\ dragCurrentRef' = Null
       /\ (phase' = "playing" /\ phase # "playing") =>
              \/ phase = "paused" /\ ballRef' = ballRef
              \/ phase = "aiming" /\ dragStartRef # Null
       /\ (phase # "aiming" /\ gameKey' = gameKey /\ ~FrameStep) => ballRef' = ballRef
      ]_vars

\* the ball flies after a drag of exactly the minimum length
C5_Witness ==
    /\ phase = "playing"
    /\ clock = 0
    /\ ballRef.vx = 3 /\ ballRef.vy = 4

\* C6: on launch the ball keeps its position and gets the velocity
\* 0.12 * min(length, 150) * unit direction of the drag: 0.12 * the drag for a
\* drag of at most 150, the velocity of the same direction's drag of exactly 150
\* for a longer one, and a speed of at most 18.
C6_Velocity ==
    [][\A off \in ReleaseOffsets :
           (MouseUpStep(off) /\ phase' = "playing") =>
               /\ ballRef'.x = ballRef.x /\ ballRef'.y = ballRef.y
               /\ ballRef'.vx * ballRef'.vx + ballRef'.vy * ballRef'.vy <= 180 * 180
               /\ LenSq(off) <= MAX_DRAG_DIST * MAX_DRAG_DIST =>
                      /\ ballRef'.vx = TDiv(12 * off[1], 100)
                      /\ ballRef'.vy = TDiv(12 * off[2], 100)
               /\ \A at \in ReleaseOffsets :
                      (/\ LenSq(at) = MAX_DRAG_DIST * MAX_DRAG_DIST
                       /\ LenSq(off) > LenSq(at)
                       /\ off[1] * at[2] = off[2] * at[1]
                       /\ off[1] * at[1] >= 0 /\ off[2] * at[2] >= 0) =>
                          /\ ballRef'.vx = TDiv(12 * at[1], 100)
                          /\ ballRef'.vy = TDiv(12 * at[2], 100)
      ]_vars

\* the ball flies at speed 18 on the diagonal: a drag of 150 or of 300
C6_Witness ==
    /\ phase = "playing"
    /\ clock = 0
    /\ ballRef.vx = -108 /\ ballRef.vy = -144

\* the bounce counts of the frame's steps chain up to the counter
RECURSIVE Chained(_, _)
Chained(log, i) ==
    IF i > Len(log) THEN TRUE
    ELSE /\ log[i].bouncesAfter =
              log[i].bouncesBefore +
              (IF log[i].wallBounced \/ log[i].obstacleBounced THEN 1 ELSE 0)
         /\ IF i < Len(log) THEN log[i + 1].bouncesBefore = log[i].bouncesAfter
            ELSE TRUE
         /\ Chained(log, i + 1)

\* C7: the bounce counter never decreases during a session; it goes up by
\* exactly 1 in a tick with a wall bounce or at least one obstacle bounce, also
\* when a wall and an obstacle are hit in the same tick, and by 0 otherwise.
C7_Bounces ==
    [][/\ gameKey' = gameKey => bouncesRef' >= bouncesRef
       /\ Chained(ticks', 1)
       /\ IF FrameStep /\ phase = "playing" /\ ticks' # <<>>
          THEN /\ ticks'[1].bouncesBefore = bouncesRef
               /\ ticks'[Len(ticks')].bouncesAfter = bouncesRef'
          ELSE gameKey' = gameKey => bouncesRef' = bouncesRef
      ]_vars

\* a tick in which the wall and an obstacle were both hit
C7_Witness ==
    \E i \in DOMAIN ticks :
        /\ ticks[i].wallBounced /\ ticks[i].obstacleBounced
        /\ ticks[i].bouncesAfter = ticks[i].bouncesBefore + 1
        /\ bouncesRef = ticks[Len(ticks)].bouncesAfter

Lost(t) == t.fired = "lostOutOfBounds" \/ t.fired = "lostMaxBounces"

\* C8 (as claimed): a tick of a Playing frame that does not win fires the Lost
\* transition exactly when the stepper reported outOfBounds or the bounce
\* counter after the tick is strictly greater than maxBounces.
C8_Claimed ==
    \A i \in DOMAIN ticks :
        ticks[i].fired # "won" =>
            (Lost(ticks[i]) <=>
                (ticks[i].outOfBounds \/ ticks[i].bouncesAfter > level.maxBounces))

\* C9 (as claimed): a tick in which goal entry holds ends in Won, whatever the
\* out-of-bounds flag and the bounce counter are, and a tick that fired a
\* terminal transition is the last step of its frame.
C9_Claimed ==
    \A i \in DOMAIN ticks :
        /\ ticks[i].goalEntry => ticks[i].fired = "won"
        /\ Terminal(ticks[i]) => i = Len(ticks)

C11_StepCap ==
    [][FrameStep =>
           IF phase = "playing"
           THEN Len(ticks') <= 3
           ELSE ticks' = ticks /\ ballRef' = ballRef
      ]_vars

\* the first frame comes 64 ms after the launch, nearly four steps, and ran three
C11_Witness ==
    /\ phase = "playing"
    /\ clock = 64 /\ lastTime = 64
    /\ StepCount(64) > 3
    /\ Len(ticks) = 3

\* C12 (as claimed): while no frame since the launch exceeded the 3-step cap, the
\* number of physics steps executed equals the time of the Playing frames
\* divided by the step length, 16.67 ms, to within one step.
C12_Claimed ==
    ~played.capped => Abs(played.steps * 1667 - played.time * 100) <= 1667

\* the call the win of this step hands to updateLevelProgress
WinCall ==
    <<level.id,
      calculateScore(CountTrue(starsCollectedRef'), bouncesRef', elapsedRef', level.maxBounces).total,
      CountTrue(starsCollectedRef')>>

\* C13: on the win tick updateLevelProgress is called exactly once, with the
\* level's id, the total of the score of the star count, the bounce counter and
\* the elapsed time after that tick, and the number of stars collected up to and
\* in that tick; no other step, a loss included, calls it.
C13_WinCall ==
    [][/\ Len(progressCalls') <= 1
       /\ winCalls' = winCalls + 1 =>
              /\ progressCalls' = Append(progressCalls, WinCall)
              /\ localStorage' = updateLevelProgress(localStorage, WinCall[1], WinCall[2], WinCall[3])
       /\ (winCalls' # winCalls + 1 /\ gameKey' = gameKey) =>
              UNCHANGED <<progressCalls, localStorage>>
       /\ gameKey' # gameKey => localStorage' = localStorage
      ]_vars

\* the win was recorded with a star picked up in the winning tick itself
C13_Witness ==
    /\ Len(progressCalls) = 1
    /\ ticks # <<>>
    /\ ticks[Len(ticks)].fired = "won"
    /\ ticks[Len(ticks)].starsAfter # ticks[Len(ticks)].starsBefore
    /\ progressCalls[1][3] = CountTrue(ticks[Len(ticks)].starsAfter)
    /\ loadGameData(localStorage).levels[level.id].bestStars = Some(progressCalls[1][3])

\* C14: the score of a win is starsBonus = 500 * stars, bounceEfficiency =
\* max(0, 100 * (maxBounces - bounces)), timeBonus = max(0, floor(10 * (60 -
\* seconds))) and total = their sum, with no clamp; bounceEfficiency and
\* timeBonus are 0, never negative, from bounces = maxBounces and from 60 s on.
C14_Score ==
    ~finalScore.isNull =>
        /\ finalScore.starsBonus = 500 * CountTrue(starsCollectedRef)
        /\ IF bouncesRef >= level.maxBounces
           THEN finalScore.bounceEfficiency = 0
           ELSE finalScore.bounceEfficiency = 100 * (level.maxBounces - bouncesRef)
        /\ IF elapsedRef >= 60000
           THEN finalScore.timeBonus = 0
           ELSE /\ 100 * finalScore.timeBonus <= 60000 - elapsedRef
                /\ 60000 - elapsedRef < 100 * (finalScore.timeBonus + 1)
        /\ finalScore.total =
              finalScore.starsBonus + finalScore.bounceEfficiency + finalScore.timeBonus

\* a win after more than a minute and more bounces than allowed scores its stars
C14_Witness ==
    /\ ~finalScore.isNull
    /\ elapsedRef > 60000 /\ bouncesRef > level.maxBounces
    /\ finalScore.total = 1500

\* the data a load finds stored, before and after the step
Stored == loadGameData(localStorage)
StoredAfter == loadGameData(localStorage')

\* the step records a win; RecordedCall is the call's <<levelId, total, stars>>
Recorded == Len(progressCalls') = Len(progressCalls) + 1
RecordedCall == progressCalls'[Len(progressCalls')]

\* C15: the stored best score of a level is the greatest total of its wins: a
\* first win replaces null, a win with a higher total replaces it, a win with a
\* lower total leaves it, and no other step changes it, so it never decreases.
C15_BestScore ==
    [][\A l \in 1..NumLevels :
          IF Recorded /\ RecordedCall[1] = l
          THEN /\ Stored.levels[l].bestScore = Null =>
                      StoredAfter.levels[l].bestScore = Some(RecordedCall[2])
               /\ Stored.levels[l].bestScore # Null =>
                      IF RecordedCall[2] > Stored.levels[l].bestScore[1]
                      THEN StoredAfter.levels[l].bestScore = Some(RecordedCall[2])
                      ELSE StoredAfter.levels[l].bestScore = Stored.levels[l].bestScore
          ELSE StoredAfter.levels[l].bestScore = Stored.levels[l].bestScore]_vars

\* a win with a lower total has left the higher best score of an earlier win
C15_Witness ==
    /\ progressCalls = << <<1, 1600, 3>> >>
    /\ Stored.levels[1].bestScore = Some(1900)

\* C16: a win of level N below the number of levels leaves currentUnlockedLevel
\* at N + 1 or more; no step lowers currentUnlockedLevel; from the default
\* data it never exceeds the number of levels.
C16_Unlock ==
    [][/\ (Recorded /\ RecordedCall[1] < NumLevels) =>
              StoredAfter.currentUnlockedLevel >= RecordedCall[1] + 1
       /\ StoredAfter.currentUnlockedLevel >= Stored.currentUnlockedLevel
       /\ StoredAfter.currentUnlockedLevel <= NumLevels]_vars

\* the last level is won, and the unlocked level is still the last
C16_Witness ==
    /\ progressCalls # <<>>
    /\ progressCalls[1][1] = NumLevels
    /\ Stored.currentUnlockedLevel = NumLevels
    /\ Stored.levels[NumLevels].completed

\* C17: a level above currentUnlockedLevel is not played: a click on its card
\* leaves level select, opening its game page ends at level select, and a win
\* is recorded only for the page's level, which was unlocked when it was entered.
C17_Locked ==
    [][/\ page' # 0 => /\ page' = requested'
                        /\ requested' <= Stored.currentUnlockedLevel
       /\ Recorded => /\ RecordedCall[1] = page
                       /\ page <= Stored.currentUnlockedLevel]_vars

\* a locked level was asked for after a win, and the page is level select
C17_Witness ==
    /\ page = 0
    /\ requested \in 1..NumLevels
    /\ requested > Stored.currentUnlockedLevel
    /\ Stored.levels[1].completed

Reports(q, i) == Cardinality({k \in 1..Len(q) : q[k] = setStarCollected(i)})

\* star i turns from not collected to collected in the step
Collects(i) == ~starsCollectedRef[i] /\ starsCollectedRef'[i]

\* the ball centre is closer than ball radius + star radius to the star
Touches(ball, star) ==
    (ball.x - star[1]) * (ball.x - star[1]) + (ball.y - star[2]) * (ball.y - star[2])
        < (BALL_RADIUS + STAR_RADIUS) * (BALL_RADIUS + STAR_RADIUS)

\* C19: the collected-set has one flag per star of the level and starts
\* all-false; until a restart a flag only turns from false to true, in a tick
\* that leaves the ball centre closer than ball radius + star radius to its
\* star, and the star is reported (onStarCollect) in that step only, so at most
\* once in a session; a restart leaves every flag false.
C19_Stars ==
    /\ \A i \in DOMAIN starsCollectedRef : ~starsCollectedRef[i]
    /\ [][/\ DOMAIN starsCollectedRef' = DOMAIN level.stars
          /\ gameKey' # gameKey => \A i \in DOMAIN level.stars : ~starsCollectedRef'[i]
          /\ gameKey' = gameKey =>
               \A i \in DOMAIN level.stars :
                   /\ starsCollectedRef[i] => starsCollectedRef'[i]
                   /\ Collects(i) =>
                         \E k \in 1..Len(ticks') :
                             /\ ~ticks'[k].starsBefore[i]
                             /\ ticks'[k].starsAfter[i]
                             /\ Touches(ticks'[k].ballAfter, level.stars[i])
                   /\ Reports(pending', i) <= Reports(pending, i) + (IF Collects(i) THEN 1 ELSE 0)]_vars

\* a star collected in an earlier frame is still collected after a frame whose
\* ticks collected nothing, and another star is not collected
C19_Witness ==
    /\ ticks # <<>>
    /\ \A k \in 1..Len(ticks) : ticks[k].starsAfter = ticks[k].starsBefore
    /\ \E i, j \in DOMAIN starsCollectedRef : starsCollectedRef[i] /\ ~starsCollectedRef[j]
    /\ phaseRef = "playing"

\* C20: no residual penetration: when a resolver reports a bounce, a second run
\* on the returned ball against the same obstacle reports no bounce and returns
\* the ball unchanged.
C20_Claimed ==
    Len(ticks) = 2 => /\ ~ticks[2].obstacleBounced
                      /\ ticks[2].ballAfter = ticks[2].ballBefore

\* the square of a ball's speed, and of its speed once gravity is applied
SpeedSq(ball) == ball.vx * ball.vx + ball.vy * ball.vy
FallingSpeedSq(ball) == ball.vx * ball.vx + (ball.vy + GRAVITY) * (ball.vy + GRAVITY)

\* C21: a collision correction does not raise the speed: a tick's wall clamps
\* and obstacle corrections start from the velocity with gravity applied, and
\* the speed they leave is not greater than that; a tick without a bounce
\* leaves that velocity.
C21_Energy ==
    \A k \in 1..Len(ticks) :
        IF ticks[k].wallBounced \/ ticks[k].obstacleBounced
        THEN SpeedSq(ticks[k].ballAfter) <= FallingSpeedSq(ticks[k].ballBefore)
        ELSE /\ ticks[k].ballAfter.vx = ticks[k].ballBefore.vx
             /\ ticks[k].ballAfter.vy = ticks[k].ballBefore.vy + GRAVITY

\* a moving ball bounces off a wall and off an obstacle in one tick and leaves
\* slower, and in the next tick bounces again
C21_Witness ==
    /\ Len(ticks) = 2
    /\ ticks[1].wallBounced /\ ticks[1].obstacleBounced
    /\ SpeedSq(ticks[1].ballAfter) > 0
    /\ SpeedSq(ticks[1].ballAfter) < FallingSpeedSq(ticks[1].ballBefore)
    /\ ticks[2].wallBounced \/ ticks[2].obstacleBounced

\* a wall clamp is applied in a tick from this ball: the integrated position
\* is beyond the left, the right or the top wall
Clamped(ball) ==
    \/ ball.x + ball.vx - BALL_RADIUS < 0
    \/ ball.x + ball.vx + BALL_RADIUS > CANVAS_WIDTH
    \/ ball.y + ball.vy + GRAVITY - BALL_RADIUS < 0

\* C23: after every physics step the ball is inside the left, right and top
\* walls, for any obstacle list, also when an obstacle correction follows the
\* wall clamp in the tick; wallBounced is reported exactly when a wall clamp
\* was applied.
C23_Claimed ==
    \A k \in 1..Len(ticks) :
        /\ ticks[k].ballAfter.x >= BALL_RADIUS
        /\ ticks[k].ballAfter.x <= CANVAS_WIDTH - BALL_RADIUS
        /\ ticks[k].ballAfter.y >= BALL_RADIUS
        /\ ticks[k].wallBounced <=> Clamped(ticks[k].ballBefore)

\* C24: the bottom edge is not clamped: a tick without a top clamp and without
\* an obstacle bounce leaves the ball at its integrated height, however low;
\* outOfBounds is reported exactly when the returned y minus the radius is
\* greater than the canvas height, so not when it is equal.
C24_Bottom ==
    \A k \in 1..Len(ticks) :
        /\ ticks[k].outOfBounds <=> ticks[k].ballAfter.y - BALL_RADIUS > CANVAS_HEIGHT
        /\ (/\ ~ticks[k].obstacleBounced
            /\ ticks[k].ballBefore.y + ticks[k].ballBefore.vy + GRAVITY >= BALL_RADIUS) =>
                /\ ticks[k].ballAfter.y = ticks[k].ballBefore.y + ticks[k].ballBefore.vy + GRAVITY
                /\ ticks[k].ballAfter.vy = ticks[k].ballBefore.vy + GRAVITY

\* a ball whose top edge is at the canvas height is not out of bounds, and is
\* out of bounds one tick later, lower
C24_Witness ==
    /\ Len(ticks) = 2
    /\ ticks[1].ballAfter.y - BALL_RADIUS = CANVAS_HEIGHT
    /\ ~ticks[1].outOfBounds
    /\ ticks[2].ballAfter.y > ticks[1].ballAfter.y
    /\ ticks[2].outOfBounds

\* the ball the obstacle loop of a tick starts from, when no wall clamp applies
Integrated(ball) == Ball(ball.x + ball.vx, ball.y + ball.vy + GRAVITY, ball.vx, ball.vy + GRAVITY)

\* the ball's centre is on or inside the rectangle, or is the circle's centre
AtDistanceZero(ball, obs) ==
    IF obs.type = "rect"
    THEN /\ obs.x <= ball.x /\ ball.x <= obs.x + obs.width
         /\ obs.y <= ball.y /\ ball.y <= obs.y + obs.height
    ELSE ball.x = obs.x /\ ball.y = obs.y

\* the square of the distance from the ball's centre to the obstacle
DistanceSq(ball, obs) ==
    IF obs.type = "rect"
    THEN (ball.x - Max(obs.x, Min(ball.x, obs.x + obs.width)))
           * (ball.x - Max(obs.x, Min(ball.x, obs.x + obs.width)))
         + (ball.y - Max(obs.y, Min(ball.y, obs.y + obs.height)))
           * (ball.y - Max(obs.y, Min(ball.y, obs.y + obs.height)))
    ELSE (ball.x - obs.x) * (ball.x - obs.x) + (ball.y - obs.y) * (ball.y - obs.y)

\* the ball does not reach into the obstacle
Apart(ball, obs) ==
    IF obs.type = "rect" THEN DistanceSq(ball, obs) >= BALL_RADIUS * BALL_RADIUS
    ELSE DistanceSq(ball, obs) >= (BALL_RADIUS + obs.radius) * (BALL_RADIUS + obs.radius)

\* C26: a contact at distance 0 is no collision: a ball whose centre is on or
\* inside a rectangle, or is a circle's centre, is returned unchanged by that
\* resolver with no bounce, so a tick in which every obstacle is at distance 0
\* or apart reports no obstacle bounce and returns the integrated ball; the
\* stepper returns a result also for a ball at rest.
C26_DistanceZero ==
    \A k \in 1..Len(ticks) :
        (/\ ~Clamped(ticks[k].ballBefore)
         /\ \A i \in 1..Len(level.obstacles) :
                \/ AtDistanceZero(Integrated(ticks[k].ballBefore), level.obstacles[i])
                \/ Apart(Integrated(ticks[k].ballBefore), level.obstacles[i])) =>
            /\ ~ticks[k].obstacleBounced
            /\ ticks[k].ballAfter = Integrated(ticks[k].ballBefore)

\* a ball at rest inside the rectangle is stepped: it falls on, inside it
C26_Witness ==
    /\ Len(ticks) = 2
    /\ ticks[1].ballBefore.vx = 0 /\ ticks[1].ballBefore.vy = 0
    /\ \A k \in 1..2 : /\ AtDistanceZero(ticks[k].ballAfter, StepRect)
                         /\ ~ticks[k].obstacleBounced
    /\ Len(level.obstacles) = 2

\* the ball with gravity applied, then the position integrated, then the walls
\* resolved
Walled(ball) ==
    Ball(IF ball.x + ball.vx < BALL_RADIUS THEN BALL_RADIUS
         ELSE IF ball.x + ball.vx > CANVAS_WIDTH - BALL_RADIUS THEN CANVAS_WIDTH - BALL_RADIUS
         ELSE ball.x + ball.vx,
         IF ball.y + ball.vy + GRAVITY < BALL_RADIUS THEN BALL_RADIUS
         ELSE ball.y + ball.vy + GRAVITY,
         IF ball.x + ball.vx < BALL_RADIUS THEN (3 * Abs(ball.vx)) \div 4
         ELSE IF ball.x + ball.vx > CANVAS_WIDTH - BALL_RADIUS THEN -((3 * Abs(ball.vx)) \div 4)
         ELSE ball.vx,
         IF ball.y + ball.vy + GRAVITY < BALL_RADIUS THEN (3 * Abs(ball.vy + GRAVITY)) \div 4
         ELSE ball.vy + GRAVITY)

\* the ball after the obstacles i.. of the list, each resolved against the
\* ball the obstacles before it left
RECURSIVE InOrder(_, _, _)
InOrder(ball, obstacles, i) ==
    IF i > Len(obstacles) THEN ball
    ELSE InOrder(resolveObstacle(ball, obstacles[i]).ball, obstacles, i + 1)

\* one of the obstacles i.. of the list reports a bounce, resolved in that way
RECURSIVE AnyBounce(_, _, _)
AnyBounce(ball, obstacles, i) ==
    /\ i <= Len(obstacles)
    /\ \/ resolveObstacle(ball, obstacles[i]).bounced
       \/ AnyBounce(resolveObstacle(ball, obstacles[i]).ball, obstacles, i + 1)

\* C25: a tick applies gravity, then integrates the position, then resolves the
\* walls, then resolves the obstacles one by one in level order, each against
\* the ball as the obstacles before it corrected it; obstacleBounced is
\* reported exactly when one of them reported a bounce.
C25_Order ==
    \A k \in 1..Len(ticks) :
        /\ ticks[k].ballAfter = InOrder(Walled(ticks[k].ballBefore), level.obstacles, 1)
        /\ ticks[k].obstacleBounced <=>
              AnyBounce(Walled(ticks[k].ballBefore), level.obstacles, 1)

\* both obstacles bounce in a tick, and the second on the ball before the
\* first's correction would have left another ball
C25_Witness ==
    /\ Len(ticks) >= 1
    /\ Len(level.obstacles) = 2
    /\ ticks[1].obstacleBounced
    /\ resolveObstacle(Walled(ticks[1].ballBefore), level.obstacles[1]).bounced
    /\ resolveObstacle(resolveObstacle(Walled(ticks[1].ballBefore), level.obstacles[1]).ball,
                       level.obstacles[2]).bounced
    /\ resolveObstacle(Walled(ticks[1].ballBefore), level.obstacles[2]).ball # ticks[1].ballAfter

\* the lengths by which the ball's bounding box and the goal overlap
OverlapX(ball, goal) ==
    Min(ball.x + BALL_RADIUS, goal.x + goal.width) - Max(ball.x - BALL_RADIUS, goal.x)
OverlapY(ball, goal) ==
    Min(ball.y + BALL_RADIUS, goal.y + goal.height) - Max(ball.y - BALL_RADIUS, goal.y)

\* the goal as a rectangle, for the distance of the ball from it
GoalRect(goal) ==
    [type |-> "rect", x |-> goal.x, y |-> goal.y, width |-> goal.width, height |-> goal.height]

\* C27: goal entry holds exactly when the ball's bounding box overlaps the goal
\* by more than nothing on both axes: not when it only touches the goal's edge,
\* and also when the ball's circle does not reach the goal's corner.
C27_GoalEntry ==
    \A k \in 1..Len(ticks) :
        ticks[k].goalEntry <=> /\ OverlapX(ticks[k].ballAfter, level.goal) > 0
                               /\ OverlapY(ticks[k].ballAfter, level.goal) > 0

\* a ball whose bounding box touches the goal's left edge has not entered; one
\* tick later it has, at the corner, with its circle apart from the goal
C27_Witness ==
    /\ Len(ticks) = 2
    /\ OverlapX(ticks[1].ballAfter, level.goal) = 0
    /\ OverlapY(ticks[1].ballAfter, level.goal) > 0
    /\ ~ticks[1].goalEntry
    /\ ticks[2].goalEntry
    /\ Apart(ticks[2].ballAfter, GoalRect(level.goal))

\* the results of the stepper's ticks 1, 2, ... on a copy of the ball, up to
\* tick n or the first tick that is out of bounds: a half of them (done),
\* then the rest
RECURSIVE StepperTicks(_, _, _)
TicksAfter(done, obstacles, n) ==
    IF done[Len(done)].outOfBounds THEN done
    ELSE done \o StepperTicks(done[Len(done)].ball, obstacles, n)

StepperTicks(ball, obstacles, n) ==
    IF n = 0 THEN <<>>
    ELSE IF n = 1 THEN <<stepPhysics(ball, obstacles)>>
    ELSE TicksAfter(StepperTicks(ball, obstacles, n \div 2), obstacles, n - n \div 2)

\* the ticks 1, 5, 9, ... of a run that are not out of bounds
Sampled(run) == {t \in 1..Len(run) : t % 4 = 1 /\ ~run[t].outOfBounds}

\* points are the positions after the sampled ticks of the run, in order
PointsOf(points, run) ==
    /\ Len(points) = Cardinality(Sampled(run))
    /\ \A j \in 1..Len(points) :
          /\ 4 * j - 3 \in Sampled(run)
          /\ points[j] = <<run[4 * j - 3].ball.x, run[4 * j - 3].ball.y>>

\* C28: the predictor called with N steps returns the positions after ticks
\* 1, 5, 9, ... of the stepper applied to a copy of the ball; it stops at the
\* first tick that is out of bounds and does not emit that tick, so it returns
\* at most ceil(N / 4) points and none of them is out of bounds.
C28_Predictor ==
    preview # Null =>
        /\ PointsOf(preview[1].points,
                    StepperTicks(preview[1].ball, level.obstacles, preview[1].steps))
        /\ Len(preview[1].points) <= (preview[1].steps + 3) \div 4
        /\ \A j \in 1..Len(preview[1].points) :
              preview[1].points[j][2] - BALL_RADIUS <= CANVAS_HEIGHT

\* a call with 80 steps that stopped early, at a tick that would have been
\* sampled, after it had emitted points
C28_Witness ==
    /\ preview # Null
    /\ preview[1].steps = PreviewSteps
    /\ preview[1].points # <<>>
    /\ LET run == StepperTicks(preview[1].ball, level.obstacles, PreviewSteps)
       IN /\ Len(run) < PreviewSteps
          /\ Len(run) % 4 = 1
          /\ run[Len(run)].outOfBounds

FrameCallback == \E d \in FrameDts(phaseRef) : LoopFrame(d)

\* the steps that the interval since the frame before asks for, capped
OwnSteps == Min(StepCount(clock' - clock), MaxStepsPerFrame)

\* C29 (as claimed): when a frame interval covers more than 3 steps, exactly 3
\* steps run and the excess time is dropped.
C29_Claimed ==
    [][(FrameCallback /\ LoopRuns(phaseRef) /\ StepCount(clock' - clock) > MaxStepsPerFrame)
       => Len(ticks') = MaxStepsPerFrame /\ (rafScheduled' => lastTime' = clock')]_vars

\* C29 (amended): a frame in Playing runs the steps of its own interval, the
\* time since the frame before it, capped at 3, or fewer when one of them fires
\* the win or lose transition, which ends the frame and the loop; otherwise it
\* leaves lastTime at its own time, so that the time it did not turn into
\* steps is dropped and no later frame runs steps to catch up.
C29_NoCatchUp ==
    [][(FrameCallback /\ LoopRuns(phaseRef))
       => /\ \/ Len(ticks') = OwnSteps
             \/ /\ 0 < Len(ticks') /\ Len(ticks') < OwnSteps
                /\ Terminal(ticks'[Len(ticks')])
                /\ ~rafScheduled'
          /\ rafScheduled' => lastTime' = clock'
          /\ \A i \in 1..(Len(ticks') - 1) : ~Terminal(ticks'[i])]_vars

\* a frame 64 ms after the launch ran into the cap, and the frame 16 ms after
\* it ran the one step of its own interval
C29_Witness ==
    /\ phaseRef = "playing"
    /\ played.capped
    /\ played.time = 80 /\ played.steps = MaxStepsPerFrame + 1
    /\ clock = 80 /\ lastTime = 80
    /\ Len(ticks) = 1

\* the frame callbacks of the loop that are scheduled
ScheduledFrames == staleFrames + (IF rafScheduled THEN 1 ELSE 0)

\* C30: at any time at most one frame callback of the game loop is scheduled;
\* a phase change, which runs the loop effect again, cancels the callback
\* scheduled before and schedules a new one; once the page is left no frame
\* callback is scheduled or runs, and no session state changes.
C30_OneCallback ==
    [][/\ ScheduledFrames' <= 1
       /\ (Mounted' /\ phase' # phase) => (rafScheduled' /\ staleFrames' = 0)
       /\ ~Mounted' => ScheduledFrames' = 0
       /\ ~Mounted => UNCHANGED <<uiVars, refVars, pending, clock, ticks, progressCalls,
                                  localStorage>>]_vars

\* the page was left in the middle of a flight: the loop effect had run again
\* at the launch, frame callbacks had run steps and each had scheduled the
\* next, and the last of these was cancelled
C30_Witness ==
    /\ ~Mounted
    /\ phase = "playing" /\ phaseRef = "playing"
    /\ ~winFiredRef /\ ~loseFiredRef
    /\ clock >= 128 /\ lastTime = clock
    /\ ticks # <<>>
    /\ ScheduledFrames = 0

\* the stored items that the claim names: missing, not JSON, without a levels
\* list, with fewer entries than levels
Defective == {Null, NotJson, NoLevels, FewLevels}

\* the step is a call of loadGameData
Loads == progressCalls' = progressCalls /\ gameData' # Null

\* the step is a call of updateLevelProgress for a level without an entry
UpdatesUnknown ==
    /\ progressCalls' # progressCalls
    /\ \A i \in 1..Len(loadGameData(localStorage).levels) :
          loadGameData(localStorage).levels[i].levelId # progressCalls'[Len(progressCalls')][1]

\* C36: loadGameData returns the default data (level 1 unlocked, every level
\* with null best score, null best stars and not completed) when the stored
\* item is missing, is not JSON, has no levels list or has fewer entries than
\* there are levels; updateLevelProgress for a level id without an entry
\* returns the loaded data and saves nothing.
C36_Defaults ==
    [][/\ (Loads /\ localStorage \in Defective) =>
             /\ gameData'[1].currentUnlockedLevel = 1
             /\ Len(gameData'[1].levels) = NumLevels
             /\ \A i \in 1..NumLevels :
                   gameData'[1].levels[i] = LevelProgress(i, Null, Null, FALSE)
       /\ UpdatesUnknown =>
             /\ localStorage' = localStorage
             /\ gameData' = Some(loadGameData(localStorage))]_vars

\* an item with five entries, none of level 5: a win of level 5 was not saved
C36_Witness ==
    /\ localStorage = OtherLevels
    /\ progressCalls # <<>>
    /\ progressCalls[Len(progressCalls)][1] = NumLevels
    /\ gameData = Some(JsonParse(OtherLevels))

\* the calls of updateLevelProgress for level id so far
WinsOf(id) == {k \in 1..Len(progressCalls) : progressCalls[k][1] = id}

\* the largest of a non-empty set of numbers
Largest(S) == CHOOSE m \in S : \A n \in S : n <= m

\* C37: after any sequence of wins the stored bestScore of a level is the
\* largest total and its bestStars the largest star count of the wins of that
\* level, each on its own, and completed, once true, stays true.
C37_Best ==
    /\ [](\A i \in 1..Len(loadGameData(localStorage).levels) :
            WinsOf(loadGameData(localStorage).levels[i].levelId) # {} =>
                /\ loadGameData(localStorage).levels[i].bestScore =
                     Some(Largest({progressCalls[k][2] :
                                     k \in WinsOf(loadGameData(localStorage).levels[i].levelId)}))
                /\ loadGameData(localStorage).levels[i].bestStars =
                     Some(Largest({progressCalls[k][3] :
                                     k \in WinsOf(loadGameData(localStorage).levels[i].levelId)}))
                /\ loadGameData(localStorage).levels[i].completed)
    /\ [][\A i \in 1..Len(loadGameData(localStorage).levels) :
            loadGameData(localStorage).levels[i].completed =>
                /\ i <= Len(loadGameData(localStorage').levels)
                /\ loadGameData(localStorage').levels[i].completed]_vars

\* the best score of level 1 comes from one win and its best stars from another
C37_Witness ==
    /\ Len(progressCalls) = 2
    /\ progressCalls[1] = <<1, 1900, 1>>
    /\ progressCalls[2] = <<1, 1600, 3>>
    /\ loadGameData(localStorage).levels[1].bestScore = Some(1900)
    /\ loadGameData(localStorage).levels[1].bestStars = Some(3)

\* C31 (as claimed): when the player goes from a won level to the next level
\* with the Next Level button, the new level's session is in phase Aiming with
\* the ball at the new ballStart, bounce counter 0, no star collected and no
\* final score of the previous level shown.
C31_Claimed ==
    [][level' # level =>
           /\ phase' = "aiming" /\ phaseRef' = "aiming"
           /\ ballRef' = Ball(level'.ballStart[1], level'.ballStart[2], 0, 0)
           /\ bouncesRef' = 0 /\ bounces' = 0
           /\ starsCollectedRef' = <<FALSE, FALSE, FALSE>>
           /\ starsCollected' = <<FALSE, FALSE, FALSE>>
           /\ finalScore' = NullScore]_vars

\* C32 (as claimed): the elapsed time counts only the time spent Playing: the
\* time spent Paused is neither in the elapsed time of the session after
\* Resume nor in the time bonus of the score of a win.
C32_Claimed ==
    /\ elapsedRef = played.time
    /\ (winFiredRef /\ finalScore # NullScore) =>
           finalScore.timeBonus = calculateScore(0, 0, played.time, 0).timeBonus

\* C33 (as claimed): every launched session terminates: when the frame
\* callbacks keep arriving and the player neither pauses nor restarts, a
\* session that is Playing reaches Won or Lost.
C33_Claimed == (phaseRef = "playing") ~> (phase \in {"won", "lost"})

C35_Hud ==
    /\ [](pending = <<>> =>
            /\ bounces = bouncesRef
            /\ \A i \in 1..Len(level.stars) : starsCollected[i] = starsCollectedRef[i])
    /\ [][handleRestart =>
            /\ bounces' = 0
            /\ starsCollected' = <<FALSE, FALSE, FALSE>>
            /\ pending' = <<>>]_vars

\* the second run of a session that was restarted from a flight: its HUD
\* shows the bounce and the star of this run
C35_Witness ==
    /\ gameKey > 0
    /\ restartedFrom = "playing"
    /\ phase = "playing"
    /\ pending = <<>>
    /\ bounces > 0
    /\ bounces = bouncesRef
    /\ \E i \in 1..Len(level.stars) : starsCollected[i] /\ starsCollectedRef[i]

====
